---- MODULE Spec2Model ----
(***************************************************************************)
(* A model of the outer solver loop of cppmh (solver/solver.h) and of the  *)
(* IncumbentHolder (solver/incumbent_holder.h).                            *)
(*                                                                         *)
(* Numbers.  Every double of the program (objectives, penalties, penalty   *)
(* coefficients) is an integer number of units here; a product with a      *)
(* rational rate is rounded down to a whole unit.  HUGE_VALF and the       *)
(* default target -1E100 are integers beyond every value a score takes.    *)
(***************************************************************************)
EXTENDS Integers, Sequences, FiniteSets, TLC

(***************************************************************************)
(* Bounds of the model.                                                    *)
(***************************************************************************)
MaxIterationMax == 3
MaxThreshold == 2
MaxTabuOffers == 1
MaxPhaseOffers == 1
MaxSolveCalls == 2
MaxScoreValue == 1
MaxHolderCalls == 3

(***************************************************************************)
(* Program constants.                                                      *)
(***************************************************************************)
HUGE_VALF == 1000000
DEFAULT_TARGET_OBJECTIVE == -1000000
STATUS_NO_UPDATED == 0
STATUS_LOCAL_AUGMENTED_INCUMBENT_UPDATE == 1
STATUS_GLOBAL_AUGMENTED_INCUMBENT_UPDATE == 2
STATUS_FEASIBLE_INCUMBENT_UPDATE == 4

Max(a, b) ==
    IF a >= b THEN a ELSE b

Min(a, b) ==
    IF a <= b THEN a ELSE b

\* constant::EPSILON is a positive amount below one unit: a > EPSILON is a > 0
\* and a < EPSILON is a <= 0 for a whole number a of units
ExceedsEpsilon(a) ==
    a > 0

BelowEpsilon(a) ==
    a <= 0

\* v & mask # 0 for a one-bit mask (1, 2 or 4)
HasBit(v, mask) ==
    (v \div mask) % 2 = 1

(***************************************************************************)
(* The model instance that is solved: two integer variables x0 in [0,2]    *)
(* and x1 in [0,1], the objective 6 x0 + 2 x1, and two constraint proxies  *)
(*    g[0] : 2 x0 + 2 x1 - 2 >= 0      g[1] : x0 - 1 <= 0                   *)
(*    h    : x1 - x0 <= 0                                                  *)
(* The feasible assignments are (1,0) and (1,1).                           *)
(***************************************************************************)
Assignments ==
    {<<a, b>> : a \in 0..2, b \in 0..1}

ObjectiveExpression(x) ==
    6 * x[1] + 2 * x[2]

\* violation_value_proxies of an assignment: one sequence per proxy
ViolationValues(x) ==
    << << Max(0, 2 - 2 * x[1] - 2 * x[2]), Max(0, x[1] - 1) >>,
       << Max(0, x[2] - x[1]) >> >>

ProxyIds ==
    1..2

FlatIndices(p) ==
    1..(IF p = 1 THEN 2 ELSE 1)

\* sum of f[p][i] over all elements of all proxies
SumOverProxies(f) ==
    f[1][1] + f[1][2] + f[2][1]

\* mutant: the sense of the objective is ignored
SignOfMinimization(is_minimization) ==
    1

\* Model::sign(): +1 for minimization, -1 for maximization
Sign(is_minimization) ==
    IF is_minimization THEN 1 ELSE -1

\* Model::generate_constraint_parameter_proxies(value)
GenerateConstraintParameterProxies(value) ==
    << <<value, value>>, <<value>> >>

\* Model::export_solution() after Model::update(): the named values of the
\* assignment held by the model
ExportSolution(x, mdl) ==
    [variable_value_proxies |-> x,
     objective |-> IF mdl.is_defined_objective THEN ObjectiveExpression(x) ELSE 0,
     violation_value_proxies |-> ViolationValues(x),
     is_feasible |-> SumOverProxies(ViolationValues(x)) = 0]

\* a default-constructed Solution (no proxies)
EmptySolution ==
    [variable_value_proxies |-> <<>>,
     objective |-> 0,
     violation_value_proxies |-> <<>>,
     is_feasible |-> FALSE]

\* Model::evaluate({}, local, global) on the assignment x: the objective as
\* minimization and the two penalties
Evaluate(x, mdl, local, global) ==
    LET v == ViolationValues(x)
        objective == IF mdl.is_defined_objective
                     THEN Sign(mdl.is_minimization) * ObjectiveExpression(x)
                     ELSE 0
        total_violation == SumOverProxies(v)
        local_penalty ==
            SumOverProxies([p \in ProxyIds |-> [i \in FlatIndices(p) |-> local[p][i] * v[p][i]]])
        global_penalty ==
            SumOverProxies([p \in ProxyIds |-> [i \in FlatIndices(p) |-> global[p][i] * v[p][i]]])
    IN  [objective |-> objective,
         total_violation |-> total_violation,
         local_penalty |-> local_penalty,
         global_penalty |-> global_penalty,
         local_augmented_objective |-> objective + local_penalty,
         global_augmented_objective |-> objective + global_penalty,
         is_feasible |-> ~ExceedsEpsilon(total_violation)]

\* a default-constructed SolutionScore
DefaultScore ==
    [objective |-> 0,
     total_violation |-> 0,
     local_penalty |-> 0,
     global_penalty |-> 0,
     local_augmented_objective |-> 0,
     global_augmented_objective |-> 0,
     is_feasible |-> FALSE]

(***************************************************************************)
(* IncumbentHolder                                                         *)
(***************************************************************************)
\* IncumbentHolder::IncumbentHolder() and initialize()
InitialIncumbentHolder ==
    [found_feasible_solution |-> FALSE,
     local_augmented_incumbent_solution |-> EmptySolution,
     global_augmented_incumbent_solution |-> EmptySolution,
     feasible_incumbent_solution |-> EmptySolution,
     local_augmented_incumbent_objective |-> HUGE_VALF,
     global_augmented_incumbent_objective |-> HUGE_VALF,
     feasible_incumbent_objective |-> HUGE_VALF,
     local_augmented_incumbent_score |-> DefaultScore,
     global_augmented_incumbent_score |-> DefaultScore,
     feasible_incumbent_score |-> DefaultScore]

\* IncumbentHolder::initialize() on an existing holder: the flag and the three
\* objectives are set back, the solutions and scores are left as they are
Initialize(h) ==
    [h EXCEPT !.found_feasible_solution = FALSE,
              !.local_augmented_incumbent_objective = HUGE_VALF,
              !.global_augmented_incumbent_objective = HUGE_VALF,
              !.feasible_incumbent_objective = HUGE_VALF]

\* mutant: the comparisons accept an equal or larger objective too
TryUpdateIncumbentAlways(h, a_SOLUTION, a_SCORE) ==
    [holder |->
        [found_feasible_solution |-> h.found_feasible_solution \/ a_SCORE.is_feasible,
         local_augmented_incumbent_solution |-> a_SOLUTION,
         global_augmented_incumbent_solution |-> a_SOLUTION,
         feasible_incumbent_solution |->
            IF a_SCORE.is_feasible THEN a_SOLUTION ELSE h.feasible_incumbent_solution,
         local_augmented_incumbent_objective |-> a_SCORE.local_augmented_objective,
         global_augmented_incumbent_objective |-> a_SCORE.global_augmented_objective,
         feasible_incumbent_objective |->
            IF a_SCORE.is_feasible THEN a_SCORE.objective ELSE h.feasible_incumbent_objective,
         local_augmented_incumbent_score |-> a_SCORE,
         global_augmented_incumbent_score |-> a_SCORE,
         feasible_incumbent_score |->
            IF a_SCORE.is_feasible THEN a_SCORE ELSE h.feasible_incumbent_score],
     status |-> STATUS_LOCAL_AUGMENTED_INCUMBENT_UPDATE
                + STATUS_GLOBAL_AUGMENTED_INCUMBENT_UPDATE
                + (IF a_SCORE.is_feasible THEN STATUS_FEASIBLE_INCUMBENT_UPDATE ELSE 0)]

\* mutant: the feasible incumbent is replaced without testing score.is_feasible
TryUpdateIncumbentIgnoringFeasibility(h, a_SOLUTION, a_SCORE) ==
    LET is_local == a_SCORE.local_augmented_objective < h.local_augmented_incumbent_objective
        is_global == a_SCORE.global_augmented_objective < h.global_augmented_incumbent_objective
        is_feasible == a_SCORE.objective < h.feasible_incumbent_objective
    IN  [holder |->
            [found_feasible_solution |-> h.found_feasible_solution \/ a_SCORE.is_feasible,
             local_augmented_incumbent_solution |->
                IF is_local THEN a_SOLUTION ELSE h.local_augmented_incumbent_solution,
             global_augmented_incumbent_solution |->
                IF is_global THEN a_SOLUTION ELSE h.global_augmented_incumbent_solution,
             feasible_incumbent_solution |->
                IF is_feasible THEN a_SOLUTION ELSE h.feasible_incumbent_solution,
             local_augmented_incumbent_objective |->
                IF is_local THEN a_SCORE.local_augmented_objective
                ELSE h.local_augmented_incumbent_objective,
             global_augmented_incumbent_objective |->
                IF is_global THEN a_SCORE.global_augmented_objective
                ELSE h.global_augmented_incumbent_objective,
             feasible_incumbent_objective |->
                IF is_feasible THEN a_SCORE.objective ELSE h.feasible_incumbent_objective,
             local_augmented_incumbent_score |->
                IF is_local THEN a_SCORE ELSE h.local_augmented_incumbent_score,
             global_augmented_incumbent_score |->
                IF is_global THEN a_SCORE ELSE h.global_augmented_incumbent_score,
             feasible_incumbent_score |->
                IF is_feasible THEN a_SCORE ELSE h.feasible_incumbent_score],
         status |-> (IF is_local THEN STATUS_LOCAL_AUGMENTED_INCUMBENT_UPDATE ELSE 0)
                    + (IF is_global THEN STATUS_GLOBAL_AUGMENTED_INCUMBENT_UPDATE ELSE 0)
                    + (IF is_feasible THEN STATUS_FEASIBLE_INCUMBENT_UPDATE ELSE 0)]

\* IncumbentHolder::try_update_incumbent(a_SOLUTION, a_SCORE): the holder after
\* the call and the returned status
TryUpdateIncumbent(h, a_SOLUTION, a_SCORE) ==
    LET is_local == a_SCORE.local_augmented_objective < h.local_augmented_incumbent_objective
        is_global == a_SCORE.global_augmented_objective < h.global_augmented_incumbent_objective
        is_feasible == a_SCORE.is_feasible
                       /\ a_SCORE.objective < h.feasible_incumbent_objective
    IN  [holder |->
            [found_feasible_solution |-> h.found_feasible_solution \/ a_SCORE.is_feasible,
             local_augmented_incumbent_solution |->
                IF is_local THEN a_SOLUTION ELSE h.local_augmented_incumbent_solution,
             global_augmented_incumbent_solution |->
                IF is_global THEN a_SOLUTION ELSE h.global_augmented_incumbent_solution,
             feasible_incumbent_solution |->
                IF is_feasible THEN a_SOLUTION ELSE h.feasible_incumbent_solution,
             local_augmented_incumbent_objective |->
                IF is_local THEN a_SCORE.local_augmented_objective
                ELSE h.local_augmented_incumbent_objective,
             global_augmented_incumbent_objective |->
                IF is_global THEN a_SCORE.global_augmented_objective
                ELSE h.global_augmented_incumbent_objective,
             feasible_incumbent_objective |->
                IF is_feasible THEN a_SCORE.objective ELSE h.feasible_incumbent_objective,
             local_augmented_incumbent_score |->
                IF is_local THEN a_SCORE ELSE h.local_augmented_incumbent_score,
             global_augmented_incumbent_score |->
                IF is_global THEN a_SCORE ELSE h.global_augmented_incumbent_score,
             feasible_incumbent_score |->
                IF is_feasible THEN a_SCORE ELSE h.feasible_incumbent_score],
         status |-> (IF is_local THEN STATUS_LOCAL_AUGMENTED_INCUMBENT_UPDATE ELSE 0)
                    + (IF is_global THEN STATUS_GLOBAL_AUGMENTED_INCUMBENT_UPDATE ELSE 0)
                    + (IF is_feasible THEN STATUS_FEASIBLE_INCUMBENT_UPDATE ELSE 0)]

\* mutant: the local reset sets the found-feasible flag back as well
ResetLocalAugmentedIncumbentAndFlag(h) ==
    [h EXCEPT !.local_augmented_incumbent_objective = HUGE_VALF,
              !.found_feasible_solution = FALSE]

\* IncumbentHolder::reset_local_augmented_incumbent()
ResetLocalAugmentedIncumbent(h) ==
    [h EXCEPT !.local_augmented_incumbent_objective = HUGE_VALF]

(***************************************************************************)
(* The inner searches.  lagrange_dual::solve, local_search::solve and      *)
(* tabu_search::solve work on a copy of the caller's incumbent holder:     *)
(* they reset its local augmented incumbent, offer it the initial solution *)
(* and then every solution they visit, each scored under the penalty       *)
(* coefficients they were given.                                           *)
(***************************************************************************)
BitOr(a, b) ==
    (IF HasBit(a, 1) \/ HasBit(b, 1) THEN 1 ELSE 0)
    + (IF HasBit(a, 2) \/ HasBit(b, 2) THEN 2 ELSE 0)
    + (IF HasBit(a, 4) \/ HasBit(b, 4) THEN 4 ELSE 0)

OfferSequences(n) ==
    UNION {[1..k -> Assignments] : k \in 0..n}

RECURSIVE RunOffers(_, _, _, _, _, _)
RunOffers(h, offers, mdl, local, global, total_update_status) ==
    IF offers = <<>>
    THEN [incumbent_holder |-> h, total_update_status |-> total_update_status]
    ELSE LET r == TryUpdateIncumbent(h, ExportSolution(Head(offers), mdl),
                                     Evaluate(Head(offers), mdl, local, global))
         IN  RunOffers(r.holder, Tail(offers), mdl, local, global,
                       BitOr(total_update_status, r.status))

InnerSearch(a_INCUMBENT_HOLDER, initial_values, mdl, local, global, offers) ==
    LET h0 == ResetLocalAugmentedIncumbent(a_INCUMBENT_HOLDER)
        first == TryUpdateIncumbent(h0, ExportSolution(initial_values, mdl),
                                    Evaluate(initial_values, mdl, local, global))
        run == RunOffers(first.holder, offers, mdl, local, global, STATUS_NO_UPDATED)
    IN  [incumbent_holder |-> run.incumbent_holder,
         total_update_status |-> run.total_update_status,
         number_of_iterations |-> Len(offers),
         variable_values |-> IF offers = <<>> THEN initial_values
                             ELSE offers[Len(offers)]]

(***************************************************************************)
(* solve(a_model, a_OPTION): the pieces of the function body               *)
(***************************************************************************)
\* mutant: the latch is not tested
SolveThrowsNever(a_is_solved) ==
    FALSE

\* solver.h:40 the test of the solved latch
SolveThrows(a_is_solved) ==
    a_is_solved

\* mutant: the target is taken as given, for either sense
NormalizeTargetWithoutSign(target_objective_value, mdl) ==
    IF target_objective_value = DEFAULT_TARGET_OBJECTIVE /\ ~mdl.is_defined_objective
    THEN 0
    ELSE target_objective_value

\* mutant: the default target is kept for a model without objective
NormalizeTargetKeepingDefault(target_objective_value, mdl) ==
    IF target_objective_value # DEFAULT_TARGET_OBJECTIVE
    THEN target_objective_value * Sign(mdl.is_minimization)
    ELSE target_objective_value

\* solver.h:72-85.  A target of the model is the default or is far from it, so
\* fabs(target_objective_changed_rate) > EPSILON is "the target is not the
\* default" and fabs(...) < EPSILON is "the target is the default".
NormalizeTarget(target_objective_value, mdl) ==
    LET changed == target_objective_value # DEFAULT_TARGET_OBJECTIVE
        signed == IF changed
                  THEN target_objective_value * Sign(mdl.is_minimization)
                  ELSE target_objective_value
    IN  IF ~changed /\ ~mdl.is_defined_objective THEN 0 ELSE signed

\* mutant: the iteration limit is tested with > instead of >=
CheckTerminationOffByOne(is_time_over, a_iteration, h, option) ==
    IF is_time_over THEN "time"
    ELSE IF a_iteration > option.iteration_max THEN "iteration"
    ELSE IF h.feasible_incumbent_objective <= option.target_objective_value THEN "target"
    ELSE "none"

\* solver.h:477-502 the terminating conditions at the top of the outer loop;
\* is_time_over is elapsed_time > master_option.time_max
CheckTermination(is_time_over, a_iteration, h, option) ==
    IF is_time_over THEN "time"
    ELSE IF a_iteration >= option.iteration_max THEN "iteration"
    ELSE IF h.feasible_incumbent_objective <= option.target_objective_value THEN "target"
    ELSE "none"

\* mutant: the counter is not set back when the threshold is reached
StagnationUpdateWithoutRestart(update_status, a_not_update_count, option) ==
    IF update_status # 0
    THEN [not_update_count |-> 0, penalty_coefficient_reset_flag |-> FALSE]
    ELSE [not_update_count |-> a_not_update_count + 1,
          penalty_coefficient_reset_flag |->
              a_not_update_count + 1 = option.penalty_coefficient_reset_count_threshold]

\* solver.h:583-596.  The test is update_status && STATUS_GLOBAL_..._UPDATE, a
\* logical and: it is true iff update_status is not 0.
StagnationUpdate(update_status, a_not_update_count, option) ==
    IF update_status # 0 /\ STATUS_GLOBAL_AUGMENTED_INCUMBENT_UPDATE # 0
    THEN [not_update_count |-> 0, penalty_coefficient_reset_flag |-> FALSE]
    ELSE IF a_not_update_count + 1 = option.penalty_coefficient_reset_count_threshold
         THEN [not_update_count |-> 0, penalty_coefficient_reset_flag |-> TRUE]
         ELSE [not_update_count |-> a_not_update_count + 1,
               penalty_coefficient_reset_flag |-> FALSE]

\* utility::max over the elements of one proxy
MaxOfProxy(proxy) ==
    CHOOSE m \in {proxy[i] : i \in DOMAIN proxy} : \A i \in DOMAIN proxy : proxy[i] <= m

\* solver.h:663-666 the amount added to one element, rounded down to a unit
TightenIncrement(gap, violation, total_penalty, total_squared_violation, option) ==
    LET rate == option.penalty_coefficient_tightening_rate
        balance == option.penalty_coefficient_updating_balance
    IN  (rate[1] * (balance[1] * Max(0, gap) * total_squared_violation
                    + (balance[2] - balance[1]) * Max(0, gap) * violation * total_penalty))
        \div (rate[2] * balance[2] * total_penalty * total_squared_violation)

\* mutant: the bound by initial_penalty_coefficient is left out
TightenUncapped(local, gap, result_local_solution, option) ==
    LET v == result_local_solution.violation_value_proxies
        total_penalty == SumOverProxies(v)
        total_squared_violation ==
            SumOverProxies([p \in ProxyIds |-> [i \in FlatIndices(p) |-> v[p][i] * v[p][i]]])
    IN  [p \in ProxyIds |-> [i \in FlatIndices(p) |->
            local[p][i] + TightenIncrement(gap, v[p][i], total_penalty,
                                           total_squared_violation, option)]]

\* mutant: the grouping of the coefficients of one proxy is left out
TightenUngrouped(local, gap, result_local_solution, option) ==
    LET v == result_local_solution.violation_value_proxies
        total_penalty == SumOverProxies(v)
        total_squared_violation ==
            SumOverProxies([p \in ProxyIds |-> [i \in FlatIndices(p) |-> v[p][i] * v[p][i]]])
    IN  [p \in ProxyIds |-> [i \in FlatIndices(p) |->
            Min(local[p][i] + TightenIncrement(gap, v[p][i], total_penalty,
                                               total_squared_violation, option),
                option.initial_penalty_coefficient)]]

\* solver.h:636-687 the tightening of the local penalty coefficients
Tighten(local, gap, result_local_solution, option) ==
    LET v == result_local_solution.violation_value_proxies
        total_penalty == SumOverProxies(v)
        total_squared_violation ==
            SumOverProxies([p \in ProxyIds |-> [i \in FlatIndices(p) |-> v[p][i] * v[p][i]]])
        added == [p \in ProxyIds |-> [i \in FlatIndices(p) |->
                    local[p][i] + TightenIncrement(gap, v[p][i], total_penalty,
                                                   total_squared_violation, option)]]
        grouped == [p \in ProxyIds |-> [i \in FlatIndices(p) |->
                      IF option.is_enabled_grouping_penalty_coefficient
                      THEN MaxOfProxy(added[p])
                      ELSE added[p][i]]]
    IN  [p \in ProxyIds |-> [i \in FlatIndices(p) |->
            Min(grouped[p][i], option.initial_penalty_coefficient)]]

\* mutant: every coefficient is relaxed, those of violated constraints too
RelaxEveryCoefficient(local, result_local_solution, option) ==
    LET rate == option.penalty_coefficient_relaxing_rate
    IN  [p \in ProxyIds |-> [i \in FlatIndices(p) |->
            (local[p][i] * rate[1]) \div rate[2]]]

\* solver.h:693-708 the relaxing of the coefficients of satisfied constraints
Relax(local, result_local_solution, option) ==
    LET v == result_local_solution.violation_value_proxies
        rate == option.penalty_coefficient_relaxing_rate
    IN  [p \in ProxyIds |-> [i \in FlatIndices(p) |->
            IF BelowEpsilon(v[p][i])
            THEN (local[p][i] * rate[1]) \div rate[2]
            ELSE local[p][i]]]

\* mutant: the reset branch is skipped
PenaltyBranchWithoutReset(reset_flag, gap, result_local_solution) ==
    IF ExceedsEpsilon(gap) /\ ~result_local_solution.is_feasible THEN "tighten"
    ELSE "relax"

\* solver.h:620, 627-628, 688 which update of the local coefficients is taken
PenaltyBranch(reset_flag, gap, result_local_solution) ==
    IF reset_flag THEN "reset"
    ELSE IF ExceedsEpsilon(gap) /\ ~result_local_solution.is_feasible THEN "tighten"
    ELSE "relax"

\* mutant: the reset sets the coefficients back to zero
UpdateLocalPenaltyResetToZero(local, global, branch, gap, result_local_solution, option) ==
    CASE branch = "reset" -> GenerateConstraintParameterProxies(0)
      [] branch = "tighten" -> Tighten(local, gap, result_local_solution, option)
      [] OTHER -> Relax(local, result_local_solution, option)

\* solver.h:613-709 the update of the local penalty coefficients
UpdateLocalPenalty(local, global, branch, gap, result_local_solution, option) ==
    CASE branch = "reset" -> global
      [] branch = "tighten" -> Tighten(local, gap, result_local_solution, option)
      [] OTHER -> Relax(local, result_local_solution, option)

\* mutant: the global augmented incumbent is exported in every case
SelectIncumbentGlobal(h) ==
    h.global_augmented_incumbent_solution

\* solver.h:1028-1031
SelectIncumbent(h) ==
    IF h.found_feasible_solution
    THEN h.feasible_incumbent_solution
    ELSE h.global_augmented_incumbent_solution

\* Model::import_variable_values(proxies): the values the model holds after it
ImportVariableValues(proxies) ==
    proxies

\* solver.h:1028-1041, 1071-1085 the Result that solve returns
ExportResult(h, mdl, local, a_number_of_tabu_search_loops) ==
    LET incumbent == SelectIncumbent(h)
        values == ImportVariableValues(incumbent.variable_value_proxies)
    IN  [solution |-> ExportSolution(values, mdl),
         is_found_feasible_solution |-> ExportSolution(values, mdl).is_feasible,
         penalty_coefficients |-> local,
         number_of_tabu_search_loops |-> a_number_of_tabu_search_loops]

(***************************************************************************)
(* State                                                                   *)
(***************************************************************************)
VARIABLES
    option,                              \* a_OPTION, the caller's Option
    mdl,                                 \* the model's sense and objective flag
    is_solved,                           \* Model::m_is_solved
    variable_values,                     \* the values of the model's variables
    setup_count,                         \* how often Model::setup has run
    pc,                                  \* where solve is
    solve_calls,                         \* how often solve has been called
    error,                               \* the exception of the last call
    master_option,
    time_over,                           \* the last clock read exceeded time_max
    incumbent_holder,
    current_solution,
    local_penalty_coefficient_proxies,
    global_penalty_coefficient_proxies,
    iteration,
    not_update_count,
    penalty_coefficient_reset_flag,
    number_of_tabu_search_loops,
    callback_count,                      \* how often Model::callback has run
    loop_log,                            \* what the last tabu loop saw and did
    phase_log,                           \* what the two optional phases saw and did
    update_history,                      \* per tabu loop: did line 579 lower the
                                         \* global augmented incumbent objective
    termination,                         \* which condition ended the outer loop
    result,                              \* the returned Result
    last_call,                           \* the last try_update_incumbent call
    model_object,                        \* a Model built and used directly
    model_log                            \* the last call on model_object

vars ==
    <<option, mdl, is_solved, variable_values, setup_count, pc, solve_calls, error,
      master_option, time_over, incumbent_holder, current_solution,
      local_penalty_coefficient_proxies, global_penalty_coefficient_proxies,
      iteration, not_update_count, penalty_coefficient_reset_flag,
      number_of_tabu_search_loops, callback_count, loop_log, phase_log, update_history,
      termination, result, last_call, model_object, model_log>>

\* the Model of the unit tests, which the solver does not touch
model_object_vars ==
    <<model_object, model_log>>

model_vars ==
    <<mdl, is_solved, variable_values, setup_count>>

solver_vars ==
    <<master_option, time_over, incumbent_holder, current_solution,
      local_penalty_coefficient_proxies, global_penalty_coefficient_proxies,
      iteration, not_update_count, penalty_coefficient_reset_flag,
      number_of_tabu_search_loops, callback_count, loop_log, phase_log, update_history,
      termination, result>>

Targets ==
    {DEFAULT_TARGET_OBJECTIVE, 7}

\* Option with its default switches (no Lagrange dual, no local search, no
\* grouping, global restart, no target) and the largest bounds
DefaultOption ==
    [iteration_max |-> MaxIterationMax,
     target_objective_value |-> DEFAULT_TARGET_OBJECTIVE,
     penalty_coefficient_reset_count_threshold |-> MaxThreshold,
     restart_mode |-> "Global",
     is_enabled_lagrange_dual |-> FALSE,
     is_enabled_local_search |-> FALSE,
     is_enabled_grouping_penalty_coefficient |-> FALSE,
     initial_penalty_coefficient |-> 2,
     penalty_coefficient_tightening_rate |-> <<1, 1>>,
     penalty_coefficient_updating_balance |-> <<1, 2>>,
     penalty_coefficient_relaxing_rate |-> <<1, 2>>]

\* the options a caller passes: every iteration limit, with either the penalty
\* settings, the target or the two optional phases set away from the default;
\* the optional phases are enabled together with at most two tabu loops
Options ==
    UNION {
        {[DefaultOption EXCEPT
            !.iteration_max = n,
            !.penalty_coefficient_reset_count_threshold = c,
            !.restart_mode = m,
            !.is_enabled_grouping_penalty_coefficient = g] :
                c \in 1..MaxThreshold, m \in {"Global", "Local"}, g \in BOOLEAN}
        \cup {[DefaultOption EXCEPT !.iteration_max = n,
                                    !.target_objective_value = t] : t \in Targets}
        \cup {[DefaultOption EXCEPT !.iteration_max = n,
                                    !.is_enabled_lagrange_dual = a,
                                    !.is_enabled_local_search = b] :
                a \in {c \in BOOLEAN : c => n <= 2},
                b \in {c \in BOOLEAN : c => n <= 2}} :
        n \in 0..MaxIterationMax}

\* a linear minimization model with an objective and no selection variables
DefaultModel ==
    [is_minimization |-> TRUE, is_defined_objective |-> TRUE,
     is_linear |-> TRUE, number_of_selection_variables |-> 0]

\* a model is a minimization until maximize() gives it an objective; the
\* models with a nonlinear function or with selection variables are
\* minimizations with an objective
Models ==
    {m \in [is_minimization : BOOLEAN, is_defined_objective : BOOLEAN,
            is_linear : BOOLEAN, number_of_selection_variables : 0..1] :
        /\ ~m.is_minimization => m.is_defined_objective
        /\ (~m.is_linear \/ m.number_of_selection_variables > 0)
               => (m.is_minimization /\ m.is_defined_objective)}

NoLoop ==
    [branch |-> "none", reset_flag |-> FALSE, gap |-> 0, update_status |-> 0,
     total_update_status |-> 0,
     result_local_solution |-> EmptySolution, result_local_objective |-> HUGE_VALF,
     local_before |-> <<>>, initial_variable_value_proxies |-> <<>>,
     time_over_at_entry |-> FALSE,
     local_at_callback |-> <<>>,
     feasible_objective_at_entry |-> HUGE_VALF]

\* a phase that has not been reached
NoPhase ==
    [reached |-> FALSE, invoked |-> FALSE, number_of_calls |-> 0,
     time_over_at_entry |-> FALSE,
     initial_variable_value_proxies |-> <<>>,
     incumbent_holder_at_entry |-> InitialIncumbentHolder,
     result_global_solution |-> EmptySolution]

NoPhases ==
    [lagrange_dual |-> NoPhase, local_search |-> NoPhase]

NoResult ==
    [solution |-> EmptySolution, is_found_feasible_solution |-> FALSE,
     penalty_coefficients |-> <<>>, number_of_tabu_search_loops |-> 0]

NoCall ==
    [operation |-> "none", number |-> 0, before |-> InitialIncumbentHolder,
     solution |-> EmptySolution, score |-> DefaultScore, status |-> 0]

\* no Model is built outside the solver
NoModelObject ==
    [kind |-> "none"]

NoModelLog ==
    [operation |-> "none"]

InitCommon ==
    /\ is_solved = FALSE
    /\ setup_count = 0
    /\ solve_calls = 0
    /\ error = "none"
    /\ master_option = option
    /\ time_over = FALSE
    /\ incumbent_holder = InitialIncumbentHolder
    /\ current_solution = EmptySolution
    /\ local_penalty_coefficient_proxies = <<>>
    /\ global_penalty_coefficient_proxies = <<>>
    /\ iteration = 0
    /\ not_update_count = 0
    /\ penalty_coefficient_reset_flag = FALSE
    /\ number_of_tabu_search_loops = 0
    /\ callback_count = 0
    /\ loop_log = NoLoop
    /\ phase_log = NoPhases
    /\ update_history = <<>>
    /\ termination = "none"
    /\ result = NoResult
    /\ last_call = NoCall
    /\ model_object = NoModelObject
    /\ model_log = NoModelLog

Init ==
    /\ option \in Options
    /\ mdl \in Models
    /\ (~mdl.is_linear \/ mdl.number_of_selection_variables > 0)
           => (option.is_enabled_lagrange_dual /\ option.iteration_max = 0)
    /\ mdl # DefaultModel =>
           /\ option.penalty_coefficient_reset_count_threshold = MaxThreshold
           /\ option.restart_mode = "Global"
           /\ ~option.is_enabled_grouping_penalty_coefficient
    /\ variable_values \in {<<0, 0>>, <<1, 1>>}
    /\ pc = "idle"
    /\ InitCommon

\* a read of the clock: elapsed time does not go back
ClockReads ==
    {t \in BOOLEAN : time_over => t}

(***************************************************************************)
(* solve(a_model, a_OPTION), solver.h:36-222: the latch, the target, the    *)
(* setup of the model, the penalty coefficients and the first incumbent    *)
(***************************************************************************)
Solve ==
    /\ UNCHANGED model_object_vars
    /\ pc \in {"idle", "returned", "thrown"}
    /\ solve_calls < MaxSolveCalls
    /\ solve_calls' = solve_calls + 1
    /\ IF SolveThrows(is_solved)
       THEN /\ pc' = "thrown"
            /\ error' = "AlreadySolved"
            /\ UNCHANGED <<option, last_call>>
            /\ UNCHANGED model_vars
            /\ UNCHANGED solver_vars
       ELSE LET target == NormalizeTarget(option.target_objective_value, mdl)
                penalty_coefficient_proxies ==
                    GenerateConstraintParameterProxies(option.initial_penalty_coefficient)
                first == TryUpdateIncumbent(
                             InitialIncumbentHolder,
                             ExportSolution(variable_values, mdl),
                             Evaluate(variable_values, mdl,
                                      penalty_coefficient_proxies,
                                      penalty_coefficient_proxies))
            IN  /\ is_solved' = TRUE
                /\ master_option' = [option EXCEPT !.target_objective_value = target]
                /\ setup_count' = setup_count + 1
                /\ global_penalty_coefficient_proxies' = penalty_coefficient_proxies
                /\ local_penalty_coefficient_proxies' = penalty_coefficient_proxies
                /\ current_solution' = ExportSolution(variable_values, mdl)
                /\ incumbent_holder' = first.holder
                /\ time_over' = FALSE
                /\ iteration' = 0
                /\ not_update_count' = 0
                /\ penalty_coefficient_reset_flag' = FALSE
                /\ number_of_tabu_search_loops' = 0
                /\ callback_count' = 0
                /\ loop_log' = NoLoop
                /\ phase_log' = NoPhases
                /\ update_history' = <<>>
                /\ termination' = "none"
                /\ result' = NoResult
                /\ error' = "none"
                /\ pc' = "lagrange_dual"
                /\ UNCHANGED <<option, mdl, variable_values, last_call>>

\* the holder after the caller has taken over a search's global augmented and
\* feasible incumbents (solver.h:292-304, 403-415)
TakeOver(h, r) ==
    LET g == TryUpdateIncumbent(h, r.incumbent_holder.global_augmented_incumbent_solution,
                                r.incumbent_holder.global_augmented_incumbent_score)
    IN  IF r.incumbent_holder.found_feasible_solution
        THEN TryUpdateIncumbent(g.holder, r.incumbent_holder.feasible_incumbent_solution,
                                r.incumbent_holder.feasible_incumbent_score).holder
        ELSE g.holder

\* what a phase that called its search leaves in the log
InvokedPhase(t, initial_variable_value_proxies, h, r) ==
    [reached |-> TRUE, invoked |-> TRUE, number_of_calls |-> 1,
     time_over_at_entry |-> t,
     initial_variable_value_proxies |-> initial_variable_value_proxies,
     incumbent_holder_at_entry |-> h,
     result_global_solution |->
         r.incumbent_holder.global_augmented_incumbent_solution]

\* what a phase that was skipped leaves in the log
SkippedPhase(h) ==
    [NoPhase EXCEPT !.reached = TRUE, !.incumbent_holder_at_entry = h]

\* mutant: the current solution is not updated from the search's result
CurrentSolutionKept(a_current_solution, r) ==
    a_current_solution

\* solver.h:277-278, 384-385 the current solution after a phase is the global
\* augmented incumbent solution of the phase's result
CurrentSolutionAfterPhase(a_current_solution, r) ==
    r.incumbent_holder.global_augmented_incumbent_solution

\* mutant: the phase is run for every model
RunsLagrangeDualForEveryModel(a_option, a_mdl) ==
    a_option.is_enabled_lagrange_dual

\* solver.h:223-234 whether lagrange_dual::solve is called
RunsLagrangeDual(a_option, a_mdl) ==
    /\ a_option.is_enabled_lagrange_dual
    /\ a_mdl.is_linear
    /\ ~(a_mdl.number_of_selection_variables > 0)

\* solver.h:347 whether local_search::solve is called
RunsLocalSearch(a_option) ==
    a_option.is_enabled_local_search

(***************************************************************************)
(* solver.h:223-342 the optional Lagrange dual phase.  The clock is read   *)
(* at the entry; a time beyond time_max is reported by a message and the   *)
(* search is called all the same.                                          *)
(***************************************************************************)
LagrangeDualPhase ==
    /\ UNCHANGED model_object_vars
    /\ pc = "lagrange_dual"
    /\ pc' = "local_search"
    /\ IF RunsLagrangeDual(master_option, mdl)
       THEN \E t \in ClockReads, offers \in OfferSequences(MaxPhaseOffers) :
              \E r \in {InnerSearch(incumbent_holder,
                                    current_solution.variable_value_proxies, mdl,
                                    local_penalty_coefficient_proxies,
                                    global_penalty_coefficient_proxies, offers)} :
                  /\ time_over' = t
                  /\ current_solution' = CurrentSolutionAfterPhase(current_solution, r)
                  /\ incumbent_holder' = TakeOver(incumbent_holder, r)
                  /\ variable_values' = r.variable_values
                  /\ phase_log' =
                        [phase_log EXCEPT !.lagrange_dual =
                            [InvokedPhase(t, current_solution.variable_value_proxies,
                                          incumbent_holder, r)
                                EXCEPT !.number_of_calls =
                                    phase_log.lagrange_dual.number_of_calls + 1]]
       ELSE /\ phase_log' = [phase_log EXCEPT !.lagrange_dual =
                                SkippedPhase(incumbent_holder)]
            /\ UNCHANGED <<time_over, current_solution, incumbent_holder,
                           variable_values>>
    /\ UNCHANGED <<option, mdl, is_solved, setup_count, solve_calls, error,
                   master_option, local_penalty_coefficient_proxies,
                   global_penalty_coefficient_proxies, iteration, not_update_count,
                   penalty_coefficient_reset_flag, number_of_tabu_search_loops,
                   callback_count, loop_log, update_history, termination, result,
                   last_call>>

(***************************************************************************)
(* solver.h:344-455 the optional local search phase, with the same entry   *)
(***************************************************************************)
LocalSearchPhase ==
    /\ UNCHANGED model_object_vars
    /\ pc = "local_search"
    /\ pc' = "outer_loop"
    /\ IF RunsLocalSearch(master_option)
       THEN \E t \in ClockReads, offers \in OfferSequences(MaxPhaseOffers) :
              \E r \in {InnerSearch(incumbent_holder,
                                    current_solution.variable_value_proxies, mdl,
                                    local_penalty_coefficient_proxies,
                                    global_penalty_coefficient_proxies, offers)} :
                  /\ time_over' = t
                  /\ current_solution' = CurrentSolutionAfterPhase(current_solution, r)
                  /\ incumbent_holder' = TakeOver(incumbent_holder, r)
                  /\ variable_values' = r.variable_values
                  /\ phase_log' =
                        [phase_log EXCEPT !.local_search =
                            [InvokedPhase(t, current_solution.variable_value_proxies,
                                          incumbent_holder, r)
                                EXCEPT !.number_of_calls =
                                    phase_log.local_search.number_of_calls + 1]]
       ELSE /\ phase_log' = [phase_log EXCEPT !.local_search =
                                SkippedPhase(incumbent_holder)]
            /\ UNCHANGED <<time_over, current_solution, incumbent_holder,
                           variable_values>>
    /\ UNCHANGED <<option, mdl, is_solved, setup_count, solve_calls, error,
                   master_option, local_penalty_coefficient_proxies,
                   global_penalty_coefficient_proxies, iteration, not_update_count,
                   penalty_coefficient_reset_flag, number_of_tabu_search_loops,
                   callback_count, loop_log, update_history, termination, result,
                   last_call>>

\* mutant: the callback is also called on the way out of the loop
CallbackInvokedOnBreak(a_callback_count) ==
    a_callback_count + 1

\* solver.h:473-502 a break leaves the loop before model->callback()
CallbackCountOnBreak(a_callback_count) ==
    a_callback_count

\* solver.h:1015 model->callback() at the end of a pass of the loop
CallbackCountAfterLoop(a_callback_count) ==
    a_callback_count + 1

(***************************************************************************)
(* solver.h:473-502, 1019-1090 the outer loop ends on a terminating         *)
(* condition and solve returns the result                                  *)
(***************************************************************************)
OuterLoopTerminate ==
    /\ UNCHANGED model_object_vars
    /\ pc = "outer_loop"
    /\ \E t \in ClockReads :
         LET reason == CheckTermination(t, iteration, incumbent_holder, master_option)
         IN  /\ reason # "none"
             /\ time_over' = t
             /\ termination' = reason
    /\ result' = ExportResult(incumbent_holder, mdl, local_penalty_coefficient_proxies,
                              number_of_tabu_search_loops)
    /\ variable_values' =
           ImportVariableValues(SelectIncumbent(incumbent_holder).variable_value_proxies)
    /\ callback_count' = CallbackCountOnBreak(callback_count)
    /\ pc' = "returned"
    /\ UNCHANGED <<option, mdl, is_solved, setup_count, solve_calls, error,
                   master_option, incumbent_holder, current_solution,
                   local_penalty_coefficient_proxies,
                   global_penalty_coefficient_proxies, iteration, not_update_count,
                   penalty_coefficient_reset_flag, number_of_tabu_search_loops,
                   loop_log, phase_log, update_history, last_call>>

(***************************************************************************)
(* solver.h:473-1017 one pass of the outer loop that runs a tabu search    *)
(***************************************************************************)
TabuSearchLoop ==
    /\ UNCHANGED model_object_vars
    /\ pc = "outer_loop"
    /\ \E t \in ClockReads :
         /\ CheckTermination(t, iteration, incumbent_holder, master_option) = "none"
         /\ time_over' = t
    /\ \E offers \in OfferSequences(MaxTabuOffers) :
       \E r \in {InnerSearch(incumbent_holder,
                             current_solution.variable_value_proxies, mdl,
                             local_penalty_coefficient_proxies,
                             global_penalty_coefficient_proxies, offers)} :
         LET result_local_solution ==
                 r.incumbent_holder.local_augmented_incumbent_solution
             result_global_solution ==
                 r.incumbent_holder.global_augmented_incumbent_solution
             g == TryUpdateIncumbent(incumbent_holder, result_global_solution,
                                     r.incumbent_holder.global_augmented_incumbent_score)
             stagnation == StagnationUpdate(g.status, not_update_count, master_option)
             h == IF r.incumbent_holder.found_feasible_solution
                  THEN TryUpdateIncumbent(
                           g.holder, r.incumbent_holder.feasible_incumbent_solution,
                           r.incumbent_holder.feasible_incumbent_score).holder
                  ELSE g.holder
             gap == h.global_augmented_incumbent_objective
                    - r.incumbent_holder.local_augmented_incumbent_objective
             branch == PenaltyBranch(stagnation.penalty_coefficient_reset_flag, gap,
                                     result_local_solution)
         IN  /\ variable_values' = r.variable_values
             /\ current_solution' =
                   IF master_option.restart_mode = "Global"
                   THEN result_global_solution
                   ELSE result_local_solution
             /\ incumbent_holder' = h
             /\ not_update_count' = stagnation.not_update_count
             /\ penalty_coefficient_reset_flag' = stagnation.penalty_coefficient_reset_flag
             /\ local_penalty_coefficient_proxies' =
                   UpdateLocalPenalty(local_penalty_coefficient_proxies,
                                      global_penalty_coefficient_proxies, branch, gap,
                                      result_local_solution, master_option)
             /\ loop_log' =
                   [branch |-> branch,
                    reset_flag |-> stagnation.penalty_coefficient_reset_flag,
                    gap |-> gap,
                    update_status |-> g.status,
                    total_update_status |-> r.total_update_status,
                    result_local_solution |-> result_local_solution,
                    result_local_objective |->
                        r.incumbent_holder.local_augmented_incumbent_objective,
                    local_before |-> local_penalty_coefficient_proxies,
                    initial_variable_value_proxies |->
                        current_solution.variable_value_proxies,
                    time_over_at_entry |-> time_over',
                    local_at_callback |-> local_penalty_coefficient_proxies',
                    feasible_objective_at_entry |->
                        incumbent_holder.feasible_incumbent_objective]
             /\ update_history' =
                   Append(update_history,
                          g.holder.global_augmented_incumbent_objective
                              < incumbent_holder.global_augmented_incumbent_objective)
    /\ number_of_tabu_search_loops' = number_of_tabu_search_loops + 1
    /\ callback_count' = CallbackCountAfterLoop(callback_count)
    /\ iteration' = iteration + 1
    /\ UNCHANGED <<option, mdl, is_solved, setup_count, pc, solve_calls, error,
                   master_option, global_penalty_coefficient_proxies, phase_log,
                   termination, result, last_call>>

Next ==
    \/ Solve
    \/ LagrangeDualPhase
    \/ LocalSearchPhase
    \/ TabuSearchLoop
    \/ OuterLoopTerminate

Spec ==
    Init /\ [][Next]_vars

\* the running solve proceeds from one phase to the next and through the
\* outer loop; the clock need never read a time beyond time_max
LiveSpec ==
    /\ Init
    /\ [][Next]_vars
    /\ WF_vars(LagrangeDualPhase)
    /\ WF_vars(LocalSearchPhase)
    /\ WF_vars(OuterLoopTerminate \/ TabuSearchLoop)

(***************************************************************************)
(* The IncumbentHolder on its own: a holder that is offered arbitrary      *)
(* scores, reset and initialized in any order.                             *)
(***************************************************************************)
PenaltyValues ==
    0..1

HolderScores ==
    {[objective |-> o,
      total_violation |-> IF f THEN 0 ELSE 1,
      local_penalty |-> lp,
      global_penalty |-> gp,
      local_augmented_objective |-> o + lp,
      global_augmented_objective |-> o + gp,
      is_feasible |-> f] :
        o \in 0..MaxScoreValue, lp \in PenaltyValues, gp \in PenaltyValues,
        f \in BOOLEAN}

HolderSolutions ==
    {ExportSolution(x, DefaultModel) :
        x \in {<<0, 0>>, <<1, 1>>}}

HolderInit ==
    /\ option = DefaultOption
    /\ mdl = DefaultModel
    /\ variable_values = <<0, 0>>
    /\ pc = "holder"
    /\ InitCommon

holder_unchanged ==
    <<option, mdl, is_solved, variable_values, setup_count, pc, solve_calls, error,
      master_option, time_over, current_solution,
      local_penalty_coefficient_proxies, global_penalty_coefficient_proxies,
      iteration, not_update_count, penalty_coefficient_reset_flag,
      number_of_tabu_search_loops, callback_count, loop_log, phase_log, update_history,
      termination, result, model_object, model_log>>

\* incumbent_holder.try_update_incumbent(a_SOLUTION, a_SCORE)
HolderTryUpdate ==
    /\ pc = "holder"
    /\ last_call.number < MaxHolderCalls
    /\ \E a_SOLUTION \in HolderSolutions, a_SCORE \in HolderScores :
         LET r == TryUpdateIncumbent(incumbent_holder, a_SOLUTION, a_SCORE)
         IN  /\ incumbent_holder' = r.holder
             /\ last_call' = [operation |-> "try_update_incumbent",
                              number |-> last_call.number + 1,
                              before |-> incumbent_holder,
                              solution |-> a_SOLUTION,
                              score |-> a_SCORE,
                              status |-> r.status]
    /\ UNCHANGED holder_unchanged

\* incumbent_holder.reset_local_augmented_incumbent()
HolderResetLocal ==
    /\ pc = "holder"
    /\ last_call.number < MaxHolderCalls
    /\ incumbent_holder' = ResetLocalAugmentedIncumbent(incumbent_holder)
    /\ last_call' = [NoCall EXCEPT !.operation = "reset_local_augmented_incumbent",
                                   !.number = last_call.number + 1,
                                   !.before = incumbent_holder]
    /\ UNCHANGED holder_unchanged

\* incumbent_holder.initialize()
HolderInitialize ==
    /\ pc = "holder"
    /\ last_call.number < MaxHolderCalls
    /\ incumbent_holder' = Initialize(incumbent_holder)
    /\ last_call' = [NoCall EXCEPT !.operation = "initialize",
                                   !.number = last_call.number + 1,
                                   !.before = incumbent_holder]
    /\ UNCHANGED holder_unchanged

HolderNext ==
    \/ HolderTryUpdate
    \/ HolderResetLocal
    \/ HolderInitialize

HolderSpec ==
    HolderInit /\ [][HolderNext]_vars

(***************************************************************************)
(* Properties                                                              *)
(***************************************************************************)
\* C1: a call of solve on a model whose solved latch is set throws before
\* any setup or search and leaves the model and the solver's data as they
\* were; a call on a model whose latch is clear sets the latch.
C1_SolvedLatch ==
    [][solve_calls' # solve_calls =>
          IF is_solved
          THEN /\ pc' = "thrown"
               /\ error' = "AlreadySolved"
               /\ UNCHANGED model_vars
               /\ UNCHANGED solver_vars
          ELSE /\ is_solved'
               /\ error' = "none"
               /\ pc' # "thrown"]_vars

C1_Witness ==
    /\ pc = "thrown"
    /\ error = "AlreadySolved"
    /\ solve_calls = 2
    /\ setup_count = 1
    /\ number_of_tabu_search_loops > 0

\* C2: the returned solution is built from the feasible incumbent if a
\* feasible solution was found and from the global augmented incumbent
\* otherwise: the model's variable values and the exported solution are that
\* incumbent's.
C2_ReturnedIncumbent ==
    pc = "returned" =>
        LET chosen == IF incumbent_holder.found_feasible_solution
                      THEN incumbent_holder.feasible_incumbent_solution
                      ELSE incumbent_holder.global_augmented_incumbent_solution
        IN  /\ variable_values = chosen.variable_value_proxies
            /\ result.solution.variable_value_proxies = chosen.variable_value_proxies
            /\ result.solution = ExportSolution(chosen.variable_value_proxies, mdl)

C2_Witness ==
    /\ pc = "returned"
    /\ incumbent_holder.found_feasible_solution
    /\ incumbent_holder.feasible_incumbent_solution
           # incumbent_holder.global_augmented_incumbent_solution
    /\ result.solution.variable_value_proxies
           = incumbent_holder.feasible_incumbent_solution.variable_value_proxies

\* C3: through the first incumbent, the Lagrange dual, the local search and
\* every tabu loop, the solver's global augmented incumbent objective and its
\* feasible incumbent objective never increase.
C3_IncumbentsNeverIncrease ==
    [][/\ incumbent_holder'.global_augmented_incumbent_objective
              <= incumbent_holder.global_augmented_incumbent_objective
       /\ incumbent_holder'.feasible_incumbent_objective
              <= incumbent_holder.feasible_incumbent_objective]_vars

C3_Witness ==
    /\ number_of_tabu_search_loops >= 2
    /\ loop_log.update_status = STATUS_NO_UPDATED
    /\ incumbent_holder.global_augmented_incumbent_objective < HUGE_VALF
    /\ incumbent_holder.feasible_incumbent_objective < HUGE_VALF
    /\ master_option.is_enabled_lagrange_dual
    /\ master_option.is_enabled_local_search

\* C4: the status that try_update_incumbent returns has bit 1, 2 or 4 set
\* exactly when the local augmented, global augmented or feasible incumbent
\* was replaced by the offered solution and score -- for a strictly smaller
\* objective, and for the feasible incumbent only if the score is feasible --
\* and with status 0 the objective, score and solution of all three
\* incumbents are as before the call.
C4_StatusBits ==
    last_call.operation = "try_update_incumbent" =>
        LET b == last_call.before
            a == incumbent_holder
            sc == last_call.score
            so == last_call.solution
            local == sc.local_augmented_objective
                         < b.local_augmented_incumbent_objective
            global == sc.global_augmented_objective
                          < b.global_augmented_incumbent_objective
            feasible == sc.is_feasible
                        /\ sc.objective < b.feasible_incumbent_objective
        IN  /\ last_call.status \in 0..7
            /\ HasBit(last_call.status, STATUS_LOCAL_AUGMENTED_INCUMBENT_UPDATE) <=> local
            /\ HasBit(last_call.status, STATUS_GLOBAL_AUGMENTED_INCUMBENT_UPDATE) <=> global
            /\ HasBit(last_call.status, STATUS_FEASIBLE_INCUMBENT_UPDATE) <=> feasible
            /\ <<a.local_augmented_incumbent_objective,
                 a.local_augmented_incumbent_score,
                 a.local_augmented_incumbent_solution>>
               = IF local
                 THEN <<sc.local_augmented_objective, sc, so>>
                 ELSE <<b.local_augmented_incumbent_objective,
                        b.local_augmented_incumbent_score,
                        b.local_augmented_incumbent_solution>>
            /\ <<a.global_augmented_incumbent_objective,
                 a.global_augmented_incumbent_score,
                 a.global_augmented_incumbent_solution>>
               = IF global
                 THEN <<sc.global_augmented_objective, sc, so>>
                 ELSE <<b.global_augmented_incumbent_objective,
                        b.global_augmented_incumbent_score,
                        b.global_augmented_incumbent_solution>>
            /\ <<a.feasible_incumbent_objective,
                 a.feasible_incumbent_score,
                 a.feasible_incumbent_solution>>
               = IF feasible
                 THEN <<sc.objective, sc, so>>
                 ELSE <<b.feasible_incumbent_objective,
                        b.feasible_incumbent_score,
                        b.feasible_incumbent_solution>>
            /\ last_call.status = STATUS_NO_UPDATED =>
                  \A field \in DOMAIN a \ {"found_feasible_solution"} :
                      a[field] = b[field]

\* a call that replaces nothing although the score offered is below the
\* feasible incumbent's objective: the score is infeasible
C4_Witness ==
    /\ last_call.operation = "try_update_incumbent"
    /\ last_call.status = STATUS_NO_UPDATED
    /\ ~last_call.score.is_feasible
    /\ last_call.score.objective < last_call.before.feasible_incumbent_objective
    /\ last_call.before.feasible_incumbent_objective < HUGE_VALF

\* every element of the proxies a is at most the same element of b
ProxiesAtMost(a, b) ==
    \A p \in ProxyIds : \A i \in FlatIndices(p) : a[p][i] <= b[p][i]

\* C5: the global penalty coefficients never decrease from one outer-loop
\* iteration to the next, and right after a reset every local penalty
\* coefficient equals its global counterpart.
C5_GlobalPenaltyAndReset ==
    /\ [][pc = "outer_loop" =>
             ProxiesAtMost(global_penalty_coefficient_proxies,
                           global_penalty_coefficient_proxies')]_vars
    /\ [](loop_log.branch = "reset" =>
             local_penalty_coefficient_proxies = global_penalty_coefficient_proxies)

\* a reset that brings relaxed coefficients back to the global ones
C5_Witness ==
    /\ loop_log.branch = "reset"
    /\ loop_log.local_before # global_penalty_coefficient_proxies
    /\ local_penalty_coefficient_proxies = global_penalty_coefficient_proxies

\* the number of loops at the end of the history in which the global
\* augmented incumbent was not lowered
RECURSIVE TrailingStagnation(_)
TrailingStagnation(history) ==
    IF history = <<>> \/ history[Len(history)]
    THEN 0
    ELSE 1 + TrailingStagnation(SubSeq(history, 1, Len(history) - 1))

C7_OnePenaltyUpdate ==
    loop_log.branch # "none" =>
        LET expected ==
                IF loop_log.reset_flag THEN "reset"
                ELSE IF ExceedsEpsilon(loop_log.gap)
                        /\ ~loop_log.result_local_solution.is_feasible
                     THEN "tighten"
                     ELSE "relax"
        IN  /\ loop_log.branch = expected
            /\ loop_log.gap = incumbent_holder.global_augmented_incumbent_objective
                              - loop_log.result_local_objective
            /\ local_penalty_coefficient_proxies =
                  CASE expected = "reset" -> global_penalty_coefficient_proxies
                    [] expected = "tighten" ->
                          Tighten(loop_log.local_before, loop_log.gap,
                                  loop_log.result_local_solution, master_option)
                    [] OTHER ->
                          Relax(loop_log.local_before,
                                loop_log.result_local_solution, master_option)

\* a loop that raised the reset flag although the gap is positive and the
\* local incumbent is infeasible: the reset is taken, not the tightening
C7_Witness ==
    /\ loop_log.branch = "reset"
    /\ ExceedsEpsilon(loop_log.gap)
    /\ ~loop_log.result_local_solution.is_feasible

\* C8: at every boundary of the outer loop every local penalty coefficient
\* is at most initial_penalty_coefficient.
C8_LocalPenaltyBounded ==
    local_penalty_coefficient_proxies # <<>> =>
        ProxiesAtMost(local_penalty_coefficient_proxies,
                      GenerateConstraintParameterProxies(
                          master_option.initial_penalty_coefficient))

\* a tightening whose sum for some coefficient lies above the initial value
C8_Witness ==
    /\ loop_log.branch = "tighten"
    /\ ~ProxiesAtMost(TightenUncapped(loop_log.local_before, loop_log.gap,
                                      loop_log.result_local_solution, master_option),
                      GenerateConstraintParameterProxies(
                          master_option.initial_penalty_coefficient))

\* C9: the outer loop runs at most iteration_max tabu loops -- none for
\* iteration_max = 0 -- and a solve that has started returns.
C9_OuterLoopTerminates ==
    /\ [](number_of_tabu_search_loops <= master_option.iteration_max)
    /\ [](iteration = number_of_tabu_search_loops)
    /\ (pc \in {"lagrange_dual", "local_search", "outer_loop"}) ~> (pc = "returned")

C9_Witness ==
    /\ pc = "returned"
    /\ termination = "iteration"
    /\ master_option.iteration_max = MaxIterationMax
    /\ number_of_tabu_search_loops = MaxIterationMax

\* the target as the outer loop compares it: the user's value times the sign
\* of the sense; the default stays, or is 0 for a model without objective
ExpectedTarget ==
    IF option.target_objective_value # DEFAULT_TARGET_OBJECTIVE
    THEN Sign(mdl.is_minimization) * option.target_objective_value
    ELSE IF mdl.is_defined_objective THEN DEFAULT_TARGET_OBJECTIVE ELSE 0

\* C10: no tabu loop is started when the feasible incumbent objective (as
\* minimization) is at or below the target, the target being the user's
\* value times the sign of the sense; so a maximization that ends on the
\* target exports a feasible objective of at least the user's target.
C10_TargetStopsLoop ==
    /\ [][number_of_tabu_search_loops' = number_of_tabu_search_loops + 1 =>
             incumbent_holder.feasible_incumbent_objective > ExpectedTarget]_vars
    /\ [](termination = "target" /\ ~mdl.is_minimization
             /\ option.target_objective_value # DEFAULT_TARGET_OBJECTIVE =>
                 /\ result.is_found_feasible_solution
                 /\ result.solution.objective >= option.target_objective_value)

C10_Witness ==
    /\ termination = "target"
    /\ ~mdl.is_minimization
    /\ option.target_objective_value = 7
    /\ number_of_tabu_search_loops >= 1
    /\ result.solution.objective >= 7

\* C11: a search phase -- the Lagrange dual, the local search or a tabu
\* loop -- is never entered when the elapsed time read at its entry check
\* exceeds time_max, and after such a reading solve returns the incumbents as
\* they were at the check.
C11_NoPhaseAfterTimeOver ==
    /\ phase_log.lagrange_dual.invoked => ~phase_log.lagrange_dual.time_over_at_entry
    /\ phase_log.local_search.invoked => ~phase_log.local_search.time_over_at_entry
    /\ loop_log.branch # "none" => ~loop_log.time_over_at_entry
    /\ \A phase \in DOMAIN phase_log :
          (pc = "returned" /\ phase_log[phase].time_over_at_entry) =>
              incumbent_holder = phase_log[phase].incumbent_holder_at_entry
    /\ (pc = "returned" /\ termination = "time") =>
          result.solution = ExportSolution(
              SelectIncumbent(incumbent_holder).variable_value_proxies, mdl)

\* C12: lagrange_dual::solve is called iff is_enabled_lagrange_dual is set,
\* the model is linear and it has no selection variables; a skipped phase
\* leaves the incumbents, the current solution and the penalty coefficients
\* as they were.
C12_LagrangeDualCondition ==
    /\ [](phase_log.lagrange_dual.reached =>
            (phase_log.lagrange_dual.invoked <=>
                (/\ master_option.is_enabled_lagrange_dual
                 /\ mdl.is_linear
                 /\ mdl.number_of_selection_variables = 0)))
    /\ [][(pc = "lagrange_dual" /\ pc' = "local_search"
              /\ ~phase_log'.lagrange_dual.invoked) =>
             UNCHANGED <<incumbent_holder, current_solution,
                         local_penalty_coefficient_proxies,
                         global_penalty_coefficient_proxies>>]_vars

\* the phase is enabled by the option and skipped for the selection variables
C12_Witness ==
    /\ phase_log.lagrange_dual.reached
    /\ ~phase_log.lagrange_dual.invoked
    /\ master_option.is_enabled_lagrange_dual
    /\ mdl.is_linear
    /\ mdl.number_of_selection_variables > 0

\* the variable values the first search after the local search phase would
\* start from if every search started from its predecessor's global
\* augmented incumbent solution
ExpectedStartOfTabuSearch ==
    IF phase_log.local_search.invoked
    THEN phase_log.local_search.result_global_solution.variable_value_proxies
    ELSE IF phase_log.lagrange_dual.invoked
         THEN phase_log.lagrange_dual.result_global_solution.variable_value_proxies
         ELSE phase_log.lagrange_dual.incumbent_holder_at_entry
                  .global_augmented_incumbent_solution.variable_value_proxies

\* C13: the Lagrange dual phase is over before the local search phase, which
\* is over before the first tabu loop; each of the two phases is run at most
\* once; the local search starts from the global augmented incumbent solution
\* of the Lagrange dual result and the first tabu loop from that of the last
\* phase that was run.
C13_PhaseOrder ==
    /\ [](/\ phase_log.local_search.reached => phase_log.lagrange_dual.reached
          /\ number_of_tabu_search_loops > 0 => phase_log.local_search.reached
          /\ pc = "local_search" => ~phase_log.local_search.reached
          /\ phase_log.lagrange_dual.number_of_calls <= 1
          /\ phase_log.local_search.number_of_calls <= 1
          /\ (phase_log.local_search.invoked /\ phase_log.lagrange_dual.invoked) =>
                phase_log.local_search.initial_variable_value_proxies =
                    phase_log.lagrange_dual.result_global_solution.variable_value_proxies
          /\ number_of_tabu_search_loops = 1 =>
                loop_log.initial_variable_value_proxies = ExpectedStartOfTabuSearch)
    /\ [][/\ pc' = "local_search" => pc = "lagrange_dual"
          /\ (pc' = "outer_loop" /\ pc # "outer_loop") => pc = "local_search"
          /\ phase_log.lagrange_dual.reached =>
                phase_log'.lagrange_dual = phase_log.lagrange_dual
          /\ phase_log.local_search.reached =>
                phase_log'.local_search = phase_log.local_search]_vars

\* both phases were run, the Lagrange dual found a new global augmented
\* incumbent, and the first tabu loop has been run after them
C13_Witness ==
    /\ phase_log.lagrange_dual.invoked
    /\ phase_log.local_search.invoked
    /\ phase_log.lagrange_dual.result_global_solution.variable_value_proxies
          # phase_log.lagrange_dual.initial_variable_value_proxies
    /\ phase_log.local_search.result_global_solution.variable_value_proxies
          # phase_log.local_search.initial_variable_value_proxies
    /\ number_of_tabu_search_loops = 1

\* C14: the callback is called once for each completed tabu loop, after the
\* loop's penalty coefficient update and before the next termination check,
\* and not on the pass that leaves the loop on a terminating condition; the
\* number of calls is the result's number_of_tabu_search_loops.
C14_CallbackPerLoop ==
    /\ [](/\ callback_count = number_of_tabu_search_loops
          /\ pc = "returned" => result.number_of_tabu_search_loops = callback_count
          /\ loop_log.branch # "none" =>
                loop_log.local_at_callback = local_penalty_coefficient_proxies)
    /\ [][/\ (pc = "outer_loop" /\ pc' = "outer_loop") =>
                /\ callback_count' = callback_count + 1
                /\ iteration' = iteration + 1
                /\ termination' = "none"
          /\ (pc = "outer_loop" /\ pc' = "returned") =>
                /\ callback_count' = callback_count
                /\ termination' # "none"]_vars

\* solve has returned after two tabu loops whose penalty coefficients were
\* changed, and the callback was called twice
C14_Witness ==
    /\ pc = "returned"
    /\ result.number_of_tabu_search_loops = 2
    /\ callback_count = 2
    /\ loop_log.local_at_callback # loop_log.local_before

(***************************************************************************)
(* The Model of the unit tests evaluate, update_arg_void and               *)
(* update_arg_move: NumberOfElements 0-1 variables x, the expression       *)
(* p = x.dot(sequence) + 1 as the objective, and the constraints           *)
(* g: x.sum() <= n/2, h: x(0) + x(1) <= 1, s: x.selection() and            *)
(* k: x(n-1) >= 1, one constraint per proxy.                               *)
(***************************************************************************)
NumberOfElements == 3
MaxAlterations == 2
MaxAppliedMoves == 2

Elements == 1..NumberOfElements

RECURSIVE SumOf(_, _)
SumOf(f, S) ==
    IF S = {} THEN 0
    ELSE LET i == CHOOSE j \in S : TRUE
         IN  f[i] + SumOf(f, S \ {i})

\* p = x.dot(utility::sequence(n)) + 1
TestObjective ==
    [sensitivities |-> [i \in Elements |-> i - 1], constant_value |-> 1]

TestConstraints ==
    << [sensitivities |-> [i \in Elements |-> 1],
        constant_value |-> -(NumberOfElements \div 2), sense |-> "LessEqual"],
       [sensitivities |-> [i \in Elements |-> IF i <= 2 THEN 1 ELSE 0],
        constant_value |-> -1, sense |-> "LessEqual"],
       [sensitivities |-> [i \in Elements |-> 1],
        constant_value |-> -1, sense |-> "Equal"],
       [sensitivities |-> [i \in Elements |-> IF i = NumberOfElements THEN 1 ELSE 0],
        constant_value |-> -1, sense |-> "GreaterEqual"] >>

ConstraintIds == DOMAIN TestConstraints

\* the value of an expression by full recomputation from the variables
ExpressionValue(e, x) ==
    SumOf([i \in Elements |-> e.sensitivities[i] * x[i]], Elements) + e.constant_value

\* the value an expression would have after a move, from its cached value and
\* the sensitivities of the altered variables
ExpressionEvaluateMove(e, cached_value, x, a_MOVE) ==
    cached_value
      + SumOf([k \in DOMAIN a_MOVE.alterations |->
                  e.sensitivities[a_MOVE.alterations[k].variable]
                    * (a_MOVE.alterations[k].value - x[a_MOVE.alterations[k].variable])],
              DOMAIN a_MOVE.alterations)

\* the violation of a constraint whose expression has the given value
ViolationOf(sense, value) ==
    IF sense = "LessEqual" THEN Max(value, 0)
    ELSE IF sense = "GreaterEqual" THEN Max(-value, 0)
    ELSE Max(value, -value)

\* the variable values after the alterations of a move
AlteredValues(x, a_MOVE) ==
    [i \in Elements |->
        IF \E k \in DOMAIN a_MOVE.alterations : a_MOVE.alterations[k].variable = i
        THEN a_MOVE.alterations[
                 CHOOSE k \in DOMAIN a_MOVE.alterations :
                     a_MOVE.alterations[k].variable = i].value
        ELSE x[i]]

\* the constraints related to the altered variables
RelatedConstraints(alterations) ==
    {c \in ConstraintIds :
        \E k \in DOMAIN alterations :
            TestConstraints[c].sensitivities[alterations[k].variable] # 0}

\* moves as the tests build them: alterations of distinct variables and the
\* union of the related constraints of the altered variables
Moves ==
    {[alterations |-> a, related_constraint_ptrs |-> RelatedConstraints(a)] :
        a \in {b \in UNION {[1..n -> [variable : Elements, value : 0..1]] :
                               n \in 0..MaxAlterations} :
                  \A j, k \in DOMAIN b : j # k => b[j].variable # b[k].variable}}

\* Model::update(): every cached value is recomputed from the variables
ModelUpdate(m) ==
    [m EXCEPT
        !.is_updated = TRUE,
        !.expression_value = ExpressionValue(TestObjective, m.x),
        !.objective_value = ExpressionValue(TestObjective, m.x),
        !.constraint_values =
            [c \in ConstraintIds |-> ExpressionValue(TestConstraints[c], m.x)],
        !.violation_values =
            [c \in ConstraintIds |->
                ViolationOf(TestConstraints[c].sense,
                            ExpressionValue(TestConstraints[c], m.x))]]

\* mutant: the variables are altered and the cached values are kept
ModelUpdateMoveWithoutRefresh(m, a_MOVE) ==
    [m EXCEPT !.x = AlteredValues(m.x, a_MOVE)]

\* Model::update(a_MOVE): the variables are altered and the cached values of
\* the expressions, the objective and the related constraints follow by the
\* difference
ModelUpdateMove(m, a_MOVE) ==
    LET constraint_value(c) ==
            IF c \in a_MOVE.related_constraint_ptrs
            THEN ExpressionEvaluateMove(TestConstraints[c], m.constraint_values[c],
                                        m.x, a_MOVE)
            ELSE m.constraint_values[c]
    IN  [m EXCEPT
            !.x = AlteredValues(m.x, a_MOVE),
            !.expression_value =
                ExpressionEvaluateMove(TestObjective, m.expression_value, m.x, a_MOVE),
            !.objective_value =
                ExpressionEvaluateMove(TestObjective, m.objective_value, m.x, a_MOVE),
            !.constraint_values = [c \in ConstraintIds |-> constraint_value(c)],
            !.violation_values =
                [c \in ConstraintIds |->
                    ViolationOf(TestConstraints[c].sense, constraint_value(c))]]

\* the fields of a SolutionScore from its parts
Score(objective, total_violation, local_penalty, global_penalty, objective_improvable, constraint_improvable) ==
    [objective |-> objective,
     total_violation |-> total_violation,
     local_penalty |-> local_penalty,
     global_penalty |-> global_penalty,
     local_augmented_objective |-> objective + local_penalty,
     global_augmented_objective |-> objective + global_penalty,
     is_objective_improvable |-> objective_improvable,
     is_constraint_improvable |-> constraint_improvable,
     is_feasible |-> ~ExceedsEpsilon(total_violation)]

\* Model::evaluate(a_MOVE, local, global): the score after the move, with the
\* violations of all constraints summed up
ModelEvaluate(m, a_MOVE, local, global) ==
    LET objective ==
            Sign(m.is_minimization)
              * ExpressionEvaluateMove(TestObjective, m.objective_value, m.x, a_MOVE)
        violation ==
            [c \in ConstraintIds |->
                ViolationOf(TestConstraints[c].sense,
                            ExpressionEvaluateMove(TestConstraints[c],
                                                   m.constraint_values[c], m.x, a_MOVE))]
    IN  Score(objective,
              SumOf(violation, ConstraintIds),
              SumOf([c \in ConstraintIds |-> local[c] * violation[c]], ConstraintIds),
              SumOf([c \in ConstraintIds |-> global[c] * violation[c]], ConstraintIds),
              ExceedsEpsilon(Sign(m.is_minimization) * m.objective_value - objective),
              \E c \in ConstraintIds : violation[c] < m.violation_values[c])

\* mutant: the violations after the move are added to the score before
ModelEvaluateWithScoreAddingViolations(m, a_MOVE, a_SCORE, local, global) ==
    LET objective ==
            Sign(m.is_minimization)
              * ExpressionEvaluateMove(TestObjective, m.objective_value, m.x, a_MOVE)
        violation ==
            [c \in ConstraintIds |->
                ViolationOf(TestConstraints[c].sense,
                            ExpressionEvaluateMove(TestConstraints[c],
                                                   m.constraint_values[c], m.x, a_MOVE))]
        related == a_MOVE.related_constraint_ptrs
    IN  Score(objective,
              a_SCORE.total_violation + SumOf(violation, related),
              a_SCORE.local_penalty
                + SumOf([c \in related |-> local[c] * violation[c]], related),
              a_SCORE.global_penalty
                + SumOf([c \in related |-> global[c] * violation[c]], related),
              ExceedsEpsilon(Sign(m.is_minimization) * m.objective_value - objective),
              \E c \in related : violation[c] < m.violation_values[c])

\* Model::evaluate(a_MOVE, a_SCORE, local, global): the score after the move
\* from the score before it and the differences of the violations of the
\* related constraints
ModelEvaluateWithScore(m, a_MOVE, a_SCORE, local, global) ==
    LET objective ==
            Sign(m.is_minimization)
              * ExpressionEvaluateMove(TestObjective, m.objective_value, m.x, a_MOVE)
        related == a_MOVE.related_constraint_ptrs
        violation_diff ==
            [c \in related |->
                ViolationOf(TestConstraints[c].sense,
                            ExpressionEvaluateMove(TestConstraints[c],
                                                   m.constraint_values[c], m.x, a_MOVE))
                  - m.violation_values[c]]
    IN  Score(objective,
              a_SCORE.total_violation + SumOf(violation_diff, related),
              a_SCORE.local_penalty
                + SumOf([c \in related |-> local[c] * violation_diff[c]], related),
              a_SCORE.global_penalty
                + SumOf([c \in related |-> global[c] * violation_diff[c]], related),
              ExceedsEpsilon(Sign(m.is_minimization) * m.objective_value - objective),
              \E c \in related : violation_diff[c] < 0)

\* an empty move
EmptyMove ==
    [alterations |-> <<>>, related_constraint_ptrs |-> {}]

\* the penalty coefficients the tests pass to evaluate, one per constraint
PenaltyCoefficientChoices ==
    {[c \in ConstraintIds |-> 2], [c \in ConstraintIds |-> c]}

\* the Model after minimize(p) or maximize(p), the direct assignment of the
\* variables and update()
NewModelObjects ==
    {ModelUpdate([kind |-> "evaluate",
                  is_minimization |-> is_minimization,
                  x |-> x,
                  is_updated |-> FALSE,
                  expression_value |-> 0,
                  objective_value |-> 0,
                  constraint_values |-> [c \in ConstraintIds |-> 0],
                  violation_values |-> [c \in ConstraintIds |-> 0],
                  local_penalty_coefficient_proxies |-> local,
                  global_penalty_coefficient_proxies |-> [c \in ConstraintIds |-> 5]]) :
        is_minimization \in BOOLEAN, x \in [Elements -> 0..1],
        local \in PenaltyCoefficientChoices}

\* score_before = model.evaluate({}, local, global)
ScoreBefore(m) ==
    ModelEvaluate(m, EmptyMove, m.local_penalty_coefficient_proxies,
                  m.global_penalty_coefficient_proxies)

SolverIdle ==
    /\ option = DefaultOption
    /\ mdl = DefaultModel
    /\ variable_values = <<0, 0>>
    /\ is_solved = FALSE
    /\ setup_count = 0
    /\ solve_calls = 0
    /\ error = "none"
    /\ master_option = option
    /\ time_over = FALSE
    /\ incumbent_holder = InitialIncumbentHolder
    /\ current_solution = EmptySolution
    /\ local_penalty_coefficient_proxies = <<>>
    /\ global_penalty_coefficient_proxies = <<>>
    /\ iteration = 0
    /\ not_update_count = 0
    /\ penalty_coefficient_reset_flag = FALSE
    /\ number_of_tabu_search_loops = 0
    /\ callback_count = 0
    /\ loop_log = NoLoop
    /\ phase_log = NoPhases
    /\ update_history = <<>>
    /\ termination = "none"
    /\ result = NoResult
    /\ last_call = NoCall

solver_idle_vars ==
    <<option, mdl, is_solved, variable_values, setup_count, pc, solve_calls, error,
      master_option, time_over, incumbent_holder, current_solution,
      local_penalty_coefficient_proxies, global_penalty_coefficient_proxies,
      iteration, not_update_count, penalty_coefficient_reset_flag,
      number_of_tabu_search_loops, callback_count, loop_log, phase_log, update_history,
      termination, result, last_call>>

ModelInit ==
    /\ SolverIdle
    /\ pc = "model"
    /\ model_object \in NewModelObjects
    /\ model_log = [operation |-> "update",
                    move |-> EmptyMove,
                    number_of_applied_moves |-> 0,
                    score_before |-> ScoreBefore(model_object),
                    score_after_0 |-> ScoreBefore(model_object),
                    score_after_1 |-> ScoreBefore(model_object)]

\* element = value: a variable is assigned directly, which leaves the cached
\* values as they were
AssignValue ==
    /\ pc = "model"
    /\ \E i \in Elements, value \in 0..1 :
         /\ model_object.x[i] # value
         /\ model_object' = [model_object EXCEPT !.x[i] = value, !.is_updated = FALSE]
    /\ model_log' = [model_log EXCEPT !.operation = "assign",
                                      !.move = EmptyMove,
                                      !.score_after_0 = model_log.score_before,
                                      !.score_after_1 = model_log.score_before]
    /\ UNCHANGED solver_idle_vars

\* model.update(); score_before = model.evaluate({}, local, global)
UpdateCall ==
    /\ pc = "model"
    /\ ~model_object.is_updated
    /\ model_object' = ModelUpdate(model_object)
    /\ model_log' = [model_log EXCEPT !.operation = "update",
                                      !.move = EmptyMove,
                                      !.score_before = ScoreBefore(model_object'),
                                      !.score_after_0 = ScoreBefore(model_object'),
                                      !.score_after_1 = ScoreBefore(model_object')]
    /\ UNCHANGED solver_idle_vars

\* score_after_0 = model.evaluate(move, local, global);
\* score_after_1 = model.evaluate(move, score_before, local, global).
\* evaluate leaves the model as it is, so an evaluation that follows another
\* one reaches the states the first one reaches and is not taken again.
EvaluateCall ==
    /\ pc = "model"
    /\ model_object.is_updated
    /\ model_log.operation # "evaluate"
    /\ \E a_MOVE \in Moves :
         model_log' =
             [model_log EXCEPT
                 !.operation = "evaluate",
                 !.move = a_MOVE,
                 !.score_after_0 =
                     ModelEvaluate(model_object, a_MOVE,
                                   model_object.local_penalty_coefficient_proxies,
                                   model_object.global_penalty_coefficient_proxies),
                 !.score_after_1 =
                     ModelEvaluateWithScore(
                         model_object, a_MOVE, model_log.score_before,
                         model_object.local_penalty_coefficient_proxies,
                         model_object.global_penalty_coefficient_proxies)]
    /\ UNCHANGED model_object
    /\ UNCHANGED solver_idle_vars

\* model.update(move); score_before = score_after_1
UpdateMoveCall ==
    /\ pc = "model"
    /\ model_log.operation = "evaluate"
    /\ model_object' = ModelUpdateMove(model_object, model_log.move)
    /\ model_log' = [model_log EXCEPT
                        !.operation = "update_move",
                        !.move = EmptyMove,
                        !.number_of_applied_moves =
                            Min(model_log.number_of_applied_moves + 1, MaxAppliedMoves),
                        !.score_before = model_log.score_after_1,
                        !.score_after_0 = model_log.score_after_1]
    /\ UNCHANGED solver_idle_vars

ModelNext ==
    \/ AssignValue
    \/ UpdateCall
    \/ EvaluateCall
    \/ UpdateMoveCall

ModelSpec ==
    ModelInit /\ [][ModelNext]_vars

\* C15: for a maximization model sign() is -1 and the objective of the score
\* returned by evaluate is the negation of the value of the objective
\* expression after the move; for a minimization model sign() is +1 and the
\* two are equal.
C15_SignNormalizedObjective ==
    model_log.operation = "evaluate" =>
        LET value == ExpressionValue(TestObjective,
                                     AlteredValues(model_object.x, model_log.move))
        IN  IF model_object.is_minimization
            THEN /\ Sign(model_object.is_minimization) = 1
                 /\ model_log.score_after_0.objective = value
            ELSE /\ Sign(model_object.is_minimization) = -1
                 /\ model_log.score_after_0.objective = -value

\* a maximization model is evaluated for a move that changes the objective
C15_Witness ==
    /\ model_log.operation = "evaluate"
    /\ ~model_object.is_minimization
    /\ model_log.score_after_0.objective < 0
    /\ model_log.score_after_0.objective # model_log.score_before.objective

\* C16: evaluate(move, local, global) and evaluate(move, score_before, local,
\* global) return the same score, field by field, after any sequence of
\* applied moves.
C16_EvaluationsAgree ==
    model_log.operation = "evaluate" =>
        \A field \in {"objective", "total_violation", "local_penalty",
                      "global_penalty", "local_augmented_objective",
                      "global_augmented_objective", "is_objective_improvable",
                      "is_constraint_improvable", "is_feasible"} :
            model_log.score_after_0[field] = model_log.score_after_1[field]

\* after two applied moves a move is evaluated that lowers a violation and
\* leaves the model infeasible
C16_Witness ==
    /\ model_log.operation = "evaluate"
    /\ model_log.number_of_applied_moves = MaxAppliedMoves
    /\ model_log.score_after_0.is_constraint_improvable
    /\ ~model_log.score_after_0.is_feasible
    /\ model_log.score_after_0.total_violation # model_log.score_before.total_violation
    /\ model_log.score_after_1 = model_log.score_after_0

\* C17: after update() and any sequence of update(move) the cached value of
\* every expression, of the objective and of every constraint is what a full
\* recomputation from the variables gives.
C17_CachedValues ==
    model_object.is_updated =>
        /\ model_object.expression_value = ExpressionValue(TestObjective, model_object.x)
        /\ model_object.objective_value = ExpressionValue(TestObjective, model_object.x)
        /\ \A c \in ConstraintIds :
              /\ model_object.constraint_values[c] =
                    ExpressionValue(TestConstraints[c], model_object.x)
              /\ model_object.violation_values[c] =
                    ViolationOf(TestConstraints[c].sense,
                                ExpressionValue(TestConstraints[c], model_object.x))

\* moves have been applied, the last of which lowered the objective and a
\* violation
C17_Witness ==
    /\ model_log.operation = "update_move"
    /\ model_log.number_of_applied_moves = MaxAppliedMoves
    /\ model_object.is_updated
    /\ model_log.score_before.is_objective_improvable
    /\ model_log.score_before.is_constraint_improvable

(***************************************************************************)
(* The Model of the unit tests verify_and_correct_*_initial_values:        *)
(* NumberOfElements variables x that are all members of one selection      *)
(* constraint, all binary, or all integer, some of them fixed by fix_by.    *)
(***************************************************************************)
\* the k-th element of the selection's variable_ptrs, which is not always in
\* the order of x
VariablePtrOrders ==
    {[k \in Elements |-> k], [k \in Elements |-> NumberOfElements + 1 - k]}

\* the first variable of variable_ptrs that is in S
FirstOf(variable_ptrs, S) ==
    variable_ptrs[CHOOSE k \in Elements :
                      /\ variable_ptrs[k] \in S
                      /\ \A j \in Elements : variable_ptrs[j] \in S => k <= j]

\* mutant: a fixed variable out of its bounds is corrected like any other
VerifyAndCorrectCorrectingFixedVariables(m, a_IS_ENABLED_CORRECTION) ==
    LET invalid == {i \in Elements : m.x[i] < m.lower \/ m.x[i] > m.upper}
    IN  IF invalid # {} /\ ~a_IS_ENABLED_CORRECTION
        THEN [model |-> m, status |-> "error"]
        ELSE [model |-> [m EXCEPT !.x = [i \in Elements |->
                                            Max(m.lower, Min(m.x[i], m.upper))]],
              status |-> "ok"]

\* verify_and_correct_binary_variables_initial_values and
\* verify_and_correct_integer_variables_initial_values: a fixed variable out
\* of its bounds is an error; another one is moved to the nearest bound if
\* the correction is enabled and is an error otherwise
VerifyAndCorrectBoundedVariablesInitialValues(m, a_IS_ENABLED_CORRECTION) ==
    LET invalid == {i \in Elements : m.x[i] < m.lower \/ m.x[i] > m.upper}
    IN  IF \E i \in invalid : m.is_fixed[i]
        THEN [model |-> m, status |-> "error"]
        ELSE IF invalid # {} /\ ~a_IS_ENABLED_CORRECTION
        THEN [model |-> m, status |-> "error"]
        ELSE [model |-> [m EXCEPT !.x = [i \in Elements |->
                                            Max(m.lower, Min(m.x[i], m.upper))]],
              status |-> "ok"]

\* mutant: a group without a selected variable is left as it is
VerifyAndCorrectSelectionWithoutSelecting(m, a_IS_ENABLED_CORRECTION) ==
    LET invalid == {i \in Elements : m.x[i] # 0 /\ m.x[i] # 1}
        selected == {i \in Elements : m.x[i] = 1}
        fixed_selected == {i \in selected : m.is_fixed[i]}
        zeroed == [m EXCEPT !.x = [i \in Elements |->
                                      IF i \in invalid THEN 0 ELSE m.x[i]]]
    IN  IF \E i \in invalid : m.is_fixed[i]
        THEN [model |-> m, status |-> "error"]
        ELSE IF Cardinality(fixed_selected) > 1
        THEN [model |-> m, status |-> "error"]
        ELSE IF ~a_IS_ENABLED_CORRECTION /\ (invalid # {} \/ Cardinality(selected) # 1)
        THEN [model |-> m, status |-> "error"]
        ELSE IF Cardinality(selected) > 1
        THEN LET keep == IF fixed_selected # {}
                         THEN FirstOf(m.variable_ptrs, fixed_selected)
                         ELSE FirstOf(m.variable_ptrs, selected)
             IN  [model |-> [zeroed EXCEPT
                                !.x = [i \in Elements |->
                                          IF i \in selected /\ i # keep
                                          THEN 0 ELSE zeroed.x[i]],
                                !.selected_variable_ptr = keep],
                  status |-> "ok"]
        ELSE IF selected = {}
        THEN [model |-> zeroed, status |-> "ok"]
        ELSE [model |-> [zeroed EXCEPT
                            !.selected_variable_ptr = FirstOf(m.variable_ptrs, selected)],
              status |-> "ok"]

\* verify_and_correct_selection_variables_initial_values: a fixed variable
\* that is neither 0 nor 1 and two fixed variables at 1 are errors; without
\* the correction every other defect is an error; with it a value that is
\* neither 0 nor 1 becomes 0, of several selected variables the fixed or else
\* the first one is kept, and in a group without a selected variable the
\* first variable that is not fixed is selected
VerifyAndCorrectSelectionVariablesInitialValues(m, a_IS_ENABLED_CORRECTION) ==
    LET invalid == {i \in Elements : m.x[i] # 0 /\ m.x[i] # 1}
        selected == {i \in Elements : m.x[i] = 1}
        fixed_selected == {i \in selected : m.is_fixed[i]}
        not_fixed == {i \in Elements : ~m.is_fixed[i]}
        zeroed == [m EXCEPT !.x = [i \in Elements |->
                                      IF i \in invalid THEN 0 ELSE m.x[i]]]
    IN  IF \E i \in invalid : m.is_fixed[i]
        THEN [model |-> m, status |-> "error"]
        ELSE IF Cardinality(fixed_selected) > 1
        THEN [model |-> m, status |-> "error"]
        ELSE IF ~a_IS_ENABLED_CORRECTION /\ (invalid # {} \/ Cardinality(selected) # 1)
        THEN [model |-> m, status |-> "error"]
        ELSE IF Cardinality(selected) > 1
        THEN LET keep == IF fixed_selected # {}
                         THEN FirstOf(m.variable_ptrs, fixed_selected)
                         ELSE FirstOf(m.variable_ptrs, selected)
             IN  [model |-> [zeroed EXCEPT
                                !.x = [i \in Elements |->
                                          IF i \in selected /\ i # keep
                                          THEN 0 ELSE zeroed.x[i]],
                                !.selected_variable_ptr = keep],
                  status |-> "ok"]
        ELSE IF selected = {}
        THEN IF not_fixed = {}
             THEN [model |-> zeroed, status |-> "error"]
             ELSE LET first == FirstOf(m.variable_ptrs, not_fixed)
                  IN  [model |-> [zeroed EXCEPT !.x[first] = 1,
                                                !.selected_variable_ptr = first],
                       status |-> "ok"]
        ELSE [model |-> [zeroed EXCEPT
                            !.selected_variable_ptr = FirstOf(m.variable_ptrs, selected)],
              status |-> "ok"]

\* Model::update(a_MOVE) for a move of MoveSense::Selection: the first
\* alteration deselects, the second selects and becomes the selected variable
ModelUpdateSelectionMove(m, a_MOVE) ==
    [m EXCEPT !.x = AlteredValues(m.x, a_MOVE),
              !.selected_variable_ptr = a_MOVE.alterations[2].variable]

\* the Selection moves of a group: the selected variable to 0 and another
\* variable to 1, none of them fixed
SelectionMoves(m) ==
    {[alterations |-> << [variable |-> m.selected_variable_ptr, value |-> 0],
                         [variable |-> i, value |-> 1] >>,
      related_constraint_ptrs |-> {}] :
        i \in {j \in Elements : /\ j # m.selected_variable_ptr
                                /\ ~m.is_fixed[j]
                                /\ ~m.is_fixed[m.selected_variable_ptr]}}

\* the bounds of the variables: create_variables("x", 10, 0, 1) for the
\* selection and the binary variables, symmetric bounds for the integer ones
VariableBounds(category) ==
    IF category = "Integer" THEN <<-1, 1>> ELSE <<0, 1>>

\* the models of the tests before the verification: the variables as
\* created, assigned and fixed
UnverifiedModelObjects ==
    UNION {
        {[kind |-> category,
          lower |-> VariableBounds(category)[1],
          upper |-> VariableBounds(category)[2],
          x |-> x,
          is_fixed |-> is_fixed,
          variable_ptrs |-> variable_ptrs,
          selected_variable_ptr |-> 0] :
            x \in [Elements -> (VariableBounds(category)[1] - 1)
                                 ..(VariableBounds(category)[2] + 1)],
            is_fixed \in [Elements -> BOOLEAN],
            variable_ptrs \in IF category = "Selection" THEN VariablePtrOrders
                              ELSE {[k \in Elements |-> k]}} :
        category \in {"Selection", "Binary", "Integer"}}

VerifyInit ==
    /\ SolverIdle
    /\ pc = "verify"
    /\ model_object \in UnverifiedModelObjects
    /\ model_log = [operation |-> "none",
                    is_enabled_correction |-> FALSE,
                    status |-> "none",
                    before |-> model_object,
                    number_of_applied_moves |-> 0]

\* model.verify_and_correct_selection_variables_initial_values(correction, false)
VerifySelection ==
    /\ pc = "verify"
    /\ model_log.operation = "none"
    /\ model_object.kind = "Selection"
    /\ \E a_IS_ENABLED_CORRECTION \in BOOLEAN :
       \E r \in {VerifyAndCorrectSelectionVariablesInitialValues(
                     model_object, a_IS_ENABLED_CORRECTION)} :
         /\ model_object' = r.model
         /\ model_log' = [model_log EXCEPT
                             !.operation = "verify_and_correct",
                             !.is_enabled_correction = a_IS_ENABLED_CORRECTION,
                             !.status = r.status]
    /\ UNCHANGED solver_idle_vars

\* model.verify_and_correct_binary_variables_initial_values(correction, false)
VerifyBinary ==
    /\ pc = "verify"
    /\ model_log.operation = "none"
    /\ model_object.kind = "Binary"
    /\ \E a_IS_ENABLED_CORRECTION \in BOOLEAN :
       \E r \in {VerifyAndCorrectBoundedVariablesInitialValues(
                     model_object, a_IS_ENABLED_CORRECTION)} :
         /\ model_object' = r.model
         /\ model_log' = [model_log EXCEPT
                             !.operation = "verify_and_correct",
                             !.is_enabled_correction = a_IS_ENABLED_CORRECTION,
                             !.status = r.status]
    /\ UNCHANGED solver_idle_vars

\* model.verify_and_correct_integer_variables_initial_values(correction, false)
VerifyInteger ==
    /\ pc = "verify"
    /\ model_log.operation = "none"
    /\ model_object.kind = "Integer"
    /\ \E a_IS_ENABLED_CORRECTION \in BOOLEAN :
       \E r \in {VerifyAndCorrectBoundedVariablesInitialValues(
                     model_object, a_IS_ENABLED_CORRECTION)} :
         /\ model_object' = r.model
         /\ model_log' = [model_log EXCEPT
                             !.operation = "verify_and_correct",
                             !.is_enabled_correction = a_IS_ENABLED_CORRECTION,
                             !.status = r.status]
    /\ UNCHANGED solver_idle_vars

\* model.update(move) with a Selection move, after a successful verification
SelectionMoveCall ==
    /\ pc = "verify"
    /\ model_object.kind = "Selection"
    /\ model_log.operation # "none"
    /\ model_log.status = "ok"
    /\ \E a_MOVE \in SelectionMoves(model_object) :
         model_object' = ModelUpdateSelectionMove(model_object, a_MOVE)
    /\ model_log' = [model_log EXCEPT
                        !.operation = "update_move",
                        !.number_of_applied_moves =
                            Min(model_log.number_of_applied_moves + 1, MaxAppliedMoves)]
    /\ UNCHANGED solver_idle_vars

VerifyNext ==
    \/ VerifySelection
    \/ VerifyBinary
    \/ VerifyInteger
    \/ SelectionMoveCall

VerifySpec ==
    VerifyInit /\ [][VerifyNext]_vars

\* C18: after a successful verify_and_correct_selection_variables_initial_values
\* with the correction enabled, and after any sequence of Selection moves,
\* the selection group has exactly one member with value 1, every member is
\* 0 or 1, and selected_variable_ptr is the member with value 1.
C18_SelectionGroup ==
    (/\ model_object.kind = "Selection"
     /\ model_log.operation # "none"
     /\ model_log.status = "ok"
     /\ model_log.is_enabled_correction) =>
        /\ Cardinality({i \in Elements : model_object.x[i] = 1}) = 1
        /\ \A i \in Elements : model_object.x[i] \in {0, 1}
        /\ model_object.selected_variable_ptr \in Elements
        /\ model_object.x[model_object.selected_variable_ptr] = 1

\* the correction selected a variable in a group that had none and removed a
\* value that was neither 0 nor 1, and Selection moves have been applied since
C18_Witness ==
    /\ model_object.kind = "Selection"
    /\ model_log.status = "ok"
    /\ model_log.is_enabled_correction
    /\ model_log.operation = "update_move"
    /\ model_log.number_of_applied_moves = MaxAppliedMoves
    /\ \A i \in Elements : model_log.before.x[i] # 1
    /\ \E i \in Elements : model_log.before.x[i] \notin {0, 1}
    /\ \E i \in Elements : model_object.is_fixed[i]

\* C20: each verify_and_correct_*_initial_values fails when a fixed variable
\* is outside the admissible domain, with or without the correction; a
\* successful call leaves every fixed variable as it was; a variable that is
\* not fixed and outside the domain is moved into the domain when the
\* correction is enabled and is an error when it is disabled.
C20_FixedVariables ==
    model_log.operation = "verify_and_correct" =>
        LET before == model_log.before
            outside == {i \in Elements :
                           before.x[i] < before.lower \/ before.x[i] > before.upper}
        IN  /\ (\E i \in outside : before.is_fixed[i]) => model_log.status = "error"
            /\ model_log.status = "ok" =>
                  \A i \in Elements : before.is_fixed[i] => model_object.x[i] = before.x[i]
            /\ (outside # {} /\ ~model_log.is_enabled_correction) =>
                  model_log.status = "error"
            /\ (model_log.status = "ok" /\ model_log.is_enabled_correction) =>
                  \A i \in outside :
                      /\ model_object.x[i] >= before.lower
                      /\ model_object.x[i] <= before.upper
                      /\ before.kind # "Selection" =>
                            model_object.x[i] =
                                Max(before.lower, Min(before.x[i], before.upper))

\* a successful correction of integer variables that moved a variable to its
\* bound and found a fixed variable inside the bounds
C20_Witness ==
    /\ model_log.operation = "verify_and_correct"
    /\ model_log.status = "ok"
    /\ model_log.is_enabled_correction
    /\ model_object.kind = "Integer"
    /\ \E i \in Elements : model_object.is_fixed[i]
    /\ \E i \in Elements : model_log.before.x[i] > model_log.before.upper
    /\ \E i \in Elements : model_log.before.x[i] < model_log.before.lower

(***************************************************************************)
(* The Model of the unit tests create_variable_scalar_without_bound,       *)
(* create_expression_scalar and create_constraint_scalar: the three proxy  *)
(* vectors, each in a buffer reserved for the maximum number of proxies,   *)
(* and the references the create_* calls have returned.                    *)
(***************************************************************************)
MAX_NUMBER_OF_VARIABLE_PROXIES == 3
MAX_NUMBER_OF_EXPRESSION_PROXIES == 2
MAX_NUMBER_OF_CONSTRAINT_PROXIES == 2
MaxFurtherCalls == 2

ProxyCategories == {"variable", "expression", "constraint"}

MaxNumberOfProxies(category) ==
    IF category = "variable" THEN MAX_NUMBER_OF_VARIABLE_PROXIES
    ELSE IF category = "expression" THEN MAX_NUMBER_OF_EXPRESSION_PROXIES
    ELSE MAX_NUMBER_OF_CONSTRAINT_PROXIES

\* the names the tests use, letter by letter: "x" and "s p"
ProxyNames == {<<"x">>, <<"s", " ", "p">>}

\* a name with a space is rejected
HasSpace(name) ==
    \E k \in DOMAIN name : name[k] = " "

\* a proxy vector as the Model's constructor leaves it: empty, in a buffer
\* reserved for the maximum number of proxies
EmptyProxies(category) ==
    [elements |-> <<>>, buffer |-> 0, capacity |-> MaxNumberOfProxies(category)]

\* std::vector::push_back: the element goes to the end; beyond the
\* capacity the elements move to a new buffer
PushBack(proxies, element) ==
    IF Len(proxies.elements) < proxies.capacity
    THEN [proxies EXCEPT !.elements = Append(proxies.elements, element)]
    ELSE [elements |-> Append(proxies.elements, element),
          buffer |-> proxies.buffer + 1,
          capacity |-> Max(2 * proxies.capacity, 1)]

\* mutant: the number of proxies is not limited
CreateWithoutLimit(proxies, category, name) ==
    IF HasSpace(name)
    THEN [proxies |-> proxies, status |-> "error"]
    ELSE [proxies |-> PushBack(proxies, [id |-> Len(proxies.elements), name |-> name]),
          status |-> "ok"]

\* create_variable(name), create_expression(name), create_constraint(name):
\* a name with a space and a full proxy vector are errors; otherwise the new
\* proxy gets the number of proxies so far as its id and goes to the end
Create(proxies, category, name) ==
    IF HasSpace(name)
    THEN [proxies |-> proxies, status |-> "error"]
    ELSE IF Len(proxies.elements) >= MaxNumberOfProxies(category)
    THEN [proxies |-> proxies, status |-> "error"]
    ELSE [proxies |-> PushBack(proxies, [id |-> Len(proxies.elements), name |-> name]),
          status |-> "ok"]

ProxyInit ==
    /\ SolverIdle
    /\ pc = "create"
    /\ model_object = [kind |-> "proxies",
                       proxies |-> [category \in ProxyCategories |->
                                       EmptyProxies(category)],
                       references |-> {}]
    /\ model_log = [operation |-> "none",
                    category |-> "variable",
                    name |-> <<>>,
                    status |-> "none",
                    number_of_calls |-> [category \in ProxyCategories |-> 0],
                    number_of_rejected_names |-> [category \in ProxyCategories |-> 0],
                    before |-> EmptyProxies("variable")]

\* auto& x = model.create_variable(name), and the same for expressions and
\* constraints; the caller keeps the reference
CreateCall(category) ==
    /\ pc = "create"
    /\ model_log.number_of_calls[category]
          < MaxNumberOfProxies(category) + MaxFurtherCalls
    /\ \E name \in ProxyNames :
       \E r \in {Create(model_object.proxies[category], category, name)} :
         /\ model_object' =
               [model_object EXCEPT
                   !.proxies[category] = r.proxies,
                   !.references =
                       IF r.status = "ok"
                       THEN @ \cup {[category |-> category,
                                     index |-> Len(r.proxies.elements),
                                     buffer |-> r.proxies.buffer]}
                       ELSE @]
         /\ model_log' =
               [model_log EXCEPT
                   !.operation = "create",
                   !.category = category,
                   !.name = name,
                   !.status = r.status,
                   !.number_of_calls[category] = @ + 1,
                   !.number_of_rejected_names[category] =
                       IF HasSpace(name) THEN @ + 1 ELSE @,
                   !.before = model_object.proxies[category]]
    /\ UNCHANGED solver_idle_vars

CreateVariable == CreateCall("variable")

CreateExpression == CreateCall("expression")

CreateConstraint == CreateCall("constraint")

ProxyNext ==
    \/ CreateVariable
    \/ CreateExpression
    \/ CreateConstraint

ProxySpec ==
    ProxyInit /\ [][ProxyNext]_vars

\* the k-th proxy of every vector has id k-1, and every reference a create_*
\* call has returned still points into the vector's buffer
ProxiesInOrderAndReferencesValid ==
    /\ \A category \in ProxyCategories :
          \A k \in DOMAIN model_object.proxies[category].elements :
              model_object.proxies[category].elements[k].id = k - 1
    /\ \A reference \in model_object.references :
          /\ reference.buffer = model_object.proxies[reference.category].buffer
          /\ reference.index
                \in DOMAIN model_object.proxies[reference.category].elements

NumberOfPresolveConstraints == 2
PresolveBound == 2

PresolveVariables == 1..3

\* 2 x(0), 3 x(1), x(0) + x(1), x(1) + x(2): the left sides of the test's
\* constraints
PresolveSensitivities ==
    {<<2, 0, 0>>, <<0, 3, 0>>, <<1, 1, 0>>, <<0, 1, 1>>}

PresolveConstraints ==
    [sensitivities : PresolveSensitivities, constant_value : {-4, -2},
     sense : {"Equal", "LessEqual", "GreaterEqual"}]

\* the objective x.sum() of the test, with one variable weighted negatively
PresolveObjective ==
    <<1, -1, 1>>

FloorDiv(p, q) ==
    IF q > 0 THEN p \div q ELSE (-p) \div (-q)

CeilDiv(p, q) ==
    -FloorDiv(-p, q)

\* the variables of a constraint that are not fixed
FreeVariables(m, g) ==
    {i \in PresolveVariables :
        m.constraints[g].sensitivities[i] # 0 /\ ~m.is_fixed[i]}

\* the constant of a constraint plus the contribution of its fixed variables
FixedPart(m, g) ==
    m.constraints[g].constant_value
      + SumOf([i \in PresolveVariables |->
                  IF m.is_fixed[i]
                  THEN m.constraints[g].sensitivities[i] * m.value[i] ELSE 0],
              PresolveVariables)

\* a constraint holds for the values x
Satisfies(constraint, x) ==
    ViolationOf(constraint.sense,
                constraint.sensitivities[1] * x[1] + constraint.sensitivities[2] * x[2]
                  + constraint.sensitivities[3] * x[3] + constraint.constant_value) = 0

\* some values within the bounds satisfy every constraint
IsFeasible(m) ==
    \E x_0 \in m.lower_bound[1]..m.upper_bound[1] :
    \E x_1 \in m.lower_bound[2]..m.upper_bound[2] :
    \E x_2 \in m.lower_bound[3]..m.upper_bound[3] :
        \A g \in DOMAIN m.constraints : Satisfies(m.constraints[g], <<x_0, x_1, x_2>>)

\* the feasible models before presolve: variables in [-PresolveBound,
\* PresolveBound] with initial value 0, every constraint enabled; whether an equality with two
\* free variables tightens their bounds as two inequalities do is not
\* settled by the tests, so both are taken
PresolveModels ==
    {m \in [kind : {"presolve"},
            lower_bound : {[i \in PresolveVariables |-> -PresolveBound]},
            upper_bound : {[i \in PresolveVariables |-> PresolveBound]},
            value : {[i \in PresolveVariables |-> 0]},
            is_fixed : {[i \in PresolveVariables |-> FALSE]},
            constraints : [1..NumberOfPresolveConstraints -> PresolveConstraints],
            is_enabled : {[g \in 1..NumberOfPresolveConstraints |-> TRUE]},
            tightens_by_equalities : BOOLEAN] :
        IsFeasible(m)}

\* fix implicitly fixed variables: a free variable with lower == upper
\* becomes fixed at that value
FixImplicitFixedVariables(m) ==
    [m EXCEPT
        !.is_fixed = [i \in PresolveVariables |->
                         @[i] \/ m.lower_bound[i] = m.upper_bound[i]],
        !.value = [i \in PresolveVariables |->
                      IF ~m.is_fixed[i] /\ m.lower_bound[i] = m.upper_bound[i]
                      THEN m.lower_bound[i] ELSE @[i]]]

\* the least and the largest value of a.x + c over the bounds of the free
\* variables other than j, the fixed variables at their values
RestBound(m, g, j, least) ==
    m.constraints[g].constant_value
      + SumOf([i \in PresolveVariables |->
                  LET a == m.constraints[g].sensitivities[i]
                  IN  IF i = j THEN 0
                      ELSE IF m.is_fixed[i] THEN a * m.value[i]
                      ELSE IF least
                      THEN Min(a * m.lower_bound[i], a * m.upper_bound[i])
                      ELSE Max(a * m.lower_bound[i], a * m.upper_bound[i])],
              PresolveVariables)

\* the bounds of the free variable j tightened by the constraint g: from
\* a x + rest <= 0 with the least value of rest, and from a x + rest >= 0
\* with the largest one
TightenVariable(m, g, j) ==
    LET a == m.constraints[g].sensitivities[j]
        sense == m.constraints[g].sense
        from_above == sense = "LessEqual"
                         \/ (sense = "Equal" /\ m.tightens_by_equalities)
        from_below == sense = "GreaterEqual"
                         \/ (sense = "Equal" /\ m.tightens_by_equalities)
        least == RestBound(m, g, j, TRUE)
        largest == RestBound(m, g, j, FALSE)
        upper_0 == IF from_above /\ a > 0
                   THEN Min(m.upper_bound[j], FloorDiv(-least, a))
                   ELSE m.upper_bound[j]
        lower_0 == IF from_above /\ a < 0
                   THEN Max(m.lower_bound[j], CeilDiv(-least, a))
                   ELSE m.lower_bound[j]
        upper_1 == IF from_below /\ a < 0
                   THEN Min(upper_0, FloorDiv(-largest, a)) ELSE upper_0
        lower_1 == IF from_below /\ a > 0
                   THEN Max(lower_0, CeilDiv(-largest, a)) ELSE lower_0
    IN  IF a = 0 \/ m.is_fixed[j] THEN m
        ELSE [m EXCEPT !.upper_bound[j] = upper_1, !.lower_bound[j] = lower_1]

\* one enabled constraint a x + b y_fixed + c (sense) 0.  With every variable
\* fixed and the constraint satisfied it is disabled.  With exactly one free
\* variable x it is disabled after x has been fixed (an equality) or x's
\* range has been tightened by the bound it induces (an inequality).  With
\* more free variables their ranges are tightened and it stays enabled.
TightenByConstraint(m, g) ==
    LET free == FreeVariables(m, g)
        rest == FixedPart(m, g)
        sense == m.constraints[g].sense
    IN  IF ~m.is_enabled[g] THEN m
        ELSE IF free = {}
        THEN IF ViolationOf(sense, rest) = 0
             THEN [m EXCEPT !.is_enabled[g] = FALSE] ELSE m
        ELSE IF Cardinality(free) = 1
        THEN LET x == CHOOSE i \in free : TRUE
                 a == m.constraints[g].sensitivities[x]
             IN  IF sense = "Equal"
                 THEN [m EXCEPT !.is_fixed[x] = TRUE,
                                !.value[x] = FloorDiv(-rest, a),
                                !.is_enabled[g] = FALSE]
                 ELSE [TightenVariable(m, g, x) EXCEPT !.is_enabled[g] = FALSE]
        ELSE TightenVariable(TightenVariable(TightenVariable(m, g, 1), g, 2), g, 3)

\* remove redundant constraints with tightening variable bounds: the enabled
\* constraints in their order, each seeing what the earlier ones have left
RECURSIVE TightenFrom(_, _)
TightenFrom(m, g) ==
    IF g > Len(m.constraints) THEN m
    ELSE TightenFrom(TightenByConstraint(m, g), g + 1)

TightenBounds(m) ==
    TightenFrom(m, 1)

\* a variable that appears in no enabled constraint
IsIndependent(m, i) ==
    \A g \in DOMAIN m.constraints :
        m.is_enabled[g] => m.constraints[g].sensitivities[i] = 0

\* remove independent variables: a free variable in no enabled constraint is
\* fixed at the bound that is best for the minimized objective, the lower
\* bound for a positive coefficient and the upper bound otherwise
RemoveIndependentVariables(m) ==
    [m EXCEPT
        !.is_fixed = [i \in PresolveVariables |-> @[i] \/ IsIndependent(m, i)],
        !.value = [i \in PresolveVariables |->
                      IF ~m.is_fixed[i] /\ IsIndependent(m, i)
                      THEN IF PresolveObjective[i] > 0
                           THEN m.lower_bound[i] ELSE m.upper_bound[i]
                      ELSE @[i]]]

\* the three stages of one pass, in the order of the setup pipeline
PresolvePass(m) ==
    RemoveIndependentVariables(TightenBounds(FixImplicitFixedVariables(m)))

\* presolve stops after its first pass
PresolveStopsAfterOnePass(is_changed) ==
    FALSE

\* iterate presolve to a fixed point: another pass follows one that has
\* changed something
PresolveRepeats(is_changed) ==
    is_changed

PresolveInit ==
    /\ SolverIdle
    /\ pc = "presolve_fix"
    /\ model_object \in PresolveModels
    /\ model_log = [operation |-> "none",
                    number_of_passes |-> 0,
                    at_pass_start |-> model_object,
                    processed_in_pass |->
                        [g \in 1..NumberOfPresolveConstraints |-> 0],
                    free_at_start |->
                        [g \in 1..NumberOfPresolveConstraints |->
                            Cardinality(FreeVariables(model_object, g))]]

\* the first stage of a pass
PresolveFix ==
    /\ pc = "presolve_fix"
    /\ model_object' = FixImplicitFixedVariables(model_object)
    /\ model_log' = [model_log EXCEPT !.operation = "fix",
                                      !.number_of_passes = @ + 1,
                                      !.at_pass_start = model_object]
    /\ pc' = "presolve_tighten"
    /\ UNCHANGED <<option, mdl, is_solved, variable_values, setup_count, solve_calls,
                   error, solver_vars, last_call>>

\* the second stage of a pass
PresolveTighten ==
    /\ pc = "presolve_tighten"
    /\ model_object' = TightenBounds(model_object)
    /\ model_log' =
          [model_log EXCEPT
              !.operation = "tighten",
              !.processed_in_pass =
                  [g \in DOMAIN @ |->
                      IF model_object.is_enabled[g] /\ ~model_object'.is_enabled[g]
                      THEN model_log.number_of_passes ELSE @[g]]]
    /\ pc' = "presolve_remove"
    /\ UNCHANGED <<option, mdl, is_solved, variable_values, setup_count, solve_calls,
                   error, solver_vars, last_call>>

\* the third stage of a pass and the decision to go round again
PresolveRemove ==
    /\ pc = "presolve_remove"
    /\ model_object' = RemoveIndependentVariables(model_object)
    /\ model_log' = [model_log EXCEPT !.operation = "remove"]
    /\ pc' = IF PresolveRepeats(model_object' # model_log.at_pass_start)
             THEN "presolve_fix" ELSE "presolved"
    /\ UNCHANGED <<option, mdl, is_solved, variable_values, setup_count, solve_calls,
                   error, solver_vars, last_call>>

PresolveNext ==
    \/ PresolveFix
    \/ PresolveTighten
    \/ PresolveRemove

PresolveSpec ==
    PresolveInit /\ [][PresolveNext]_vars

NumberOfCategorizedConstraints == 2

\* z and w of the test categorize_constraints, and the binary variables of
\* the tests extract_selections_larger and extract_selections_independent
BinaryVariableNames ==
    {"z0", "z1", "z2", "w", "x0", "x1", "x2", "x3", "x4", "x5"}

IntegerVariableNames == {"x", "y", "r0", "r1", "r2"}

ZSum == [v \in {"z0", "z1", "z2"} |-> 1]

ZDot == [v \in {"z0", "z1", "z2"} |-> IF v = "z0" THEN 0 ELSE IF v = "z1" THEN 1 ELSE 2]

RDot == [v \in {"r0", "r1", "r2"} |-> IF v = "r0" THEN 0 ELSE IF v = "r1" THEN 1 ELSE 2]

\* sensitivities (sense) rhs
LinearConstraint(name, sensitivities, sense, rhs) ==
    [name |-> name, is_linear |-> TRUE, sensitivities |-> sensitivities,
     sense |-> sense, rhs |-> rhs]

\* the constraints of the test by the name the test gives them, and three
\* more whose shape matches more than one row of the table
TestShapes ==
    { LinearConstraint("singleton", [v \in {"x"} |-> 2], "LessEqual", 10),
      LinearConstraint("aggregation", [v \in {"x", "y"} |-> IF v = "x" THEN 2 ELSE 3],
                       "Equal", 10),
      LinearConstraint("precedence", [v \in {"x", "y"} |-> IF v = "x" THEN 2 ELSE -2],
                       "LessEqual", 5),
      LinearConstraint("precedence", [v \in {"x", "y"} |-> IF v = "x" THEN -2 ELSE 2],
                       "LessEqual", 5),
      LinearConstraint("precedence", [v \in {"x", "y"} |-> IF v = "x" THEN 2 ELSE -2],
                       "GreaterEqual", 5),
      LinearConstraint("precedence", [v \in {"x", "y"} |-> IF v = "x" THEN -2 ELSE 2],
                       "GreaterEqual", 5),
      LinearConstraint("variable_bound", [v \in {"z0", "z1"} |-> IF v = "z0" THEN 2 ELSE 3],
                       "GreaterEqual", 5),
      LinearConstraint("variable_bound", [v \in {"z0", "z1"} |-> IF v = "z0" THEN 2 ELSE 3],
                       "LessEqual", 5),
      LinearConstraint("set_partitioning", ZSum, "Equal", 1),
      LinearConstraint("set_packing", ZSum, "LessEqual", 1),
      LinearConstraint("set_covering", ZSum, "GreaterEqual", 1),
      LinearConstraint("cardinality", ZSum, "Equal", 2),
      LinearConstraint("invariant_knapsack", ZSum, "LessEqual", 2),
      LinearConstraint("equation_knapsack", ZDot, "Equal", 3),
      LinearConstraint("bin_packing", ZDot @@ [v \in {"w"} |-> 5], "LessEqual", 5),
      LinearConstraint("bin_packing", ZDot @@ [v \in {"w"} |-> -5], "GreaterEqual", -5),
      LinearConstraint("knapsack", ZDot, "LessEqual", 50),
      LinearConstraint("knapsack", ZDot, "GreaterEqual", -50),
      LinearConstraint("integer_knapsack", RDot, "LessEqual", 50),
      LinearConstraint("integer_knapsack", RDot, "GreaterEqual", -50),
      LinearConstraint("general_linear",
                       [v \in {"x", "r0", "r1", "r2"} |-> 1], "Equal", 50),
      [name |-> "nonlinear", is_linear |-> FALSE, sensitivities |-> <<>>,
       sense |-> "LessEqual", rhs |-> 5],
      LinearConstraint("aggregation", [v \in {"z0", "z1"} |-> 1], "Equal", 1),
      LinearConstraint("aggregation", [v \in {"x", "y"} |-> IF v = "x" THEN 2 ELSE -2],
                       "Equal", 5),
      LinearConstraint("singleton", [v \in {"z0"} |-> 1], "Equal", 1) }

\* the rows of the priority table in their order, and the opaque callback
ConstraintTypes ==
    << "singleton", "aggregation", "precedence", "variable_bound",
       "set_partitioning", "set_packing", "set_covering", "cardinality",
       "invariant_knapsack", "equation_knapsack", "bin_packing", "knapsack",
       "integer_knapsack", "general_linear", "nonlinear" >>

\* the pattern of one row of the table
MatchesRow(type, c) ==
    LET variables == DOMAIN c.sensitivities
        a == c.sensitivities
        n == Cardinality(variables)
        is_binary == variables \subseteq BinaryVariableNames
        is_unit == \A v \in variables : a[v] = 1
        is_nonnegative == \A v \in variables : a[v] >= 0
    IN  IF ~c.is_linear THEN type = "nonlinear"
        ELSE CASE type = "singleton" -> n = 1
               [] type = "aggregation" -> n = 2 /\ c.sense = "Equal"
               [] type = "precedence" ->
                      n = 2 /\ SumOf(a, variables) = 0
               [] type = "variable_bound" -> n = 2
               [] type = "set_partitioning" ->
                      is_binary /\ is_unit /\ c.rhs = 1 /\ c.sense = "Equal"
               [] type = "set_packing" ->
                      is_binary /\ is_unit /\ c.rhs = 1 /\ c.sense = "LessEqual"
               [] type = "set_covering" ->
                      is_binary /\ is_unit /\ c.rhs = 1 /\ c.sense = "GreaterEqual"
               [] type = "cardinality" ->
                      is_binary /\ is_unit /\ c.rhs >= 1 /\ c.sense = "Equal"
               [] type = "invariant_knapsack" ->
                      is_binary /\ is_unit /\ c.rhs >= 1 /\ c.sense = "LessEqual"
               [] type = "equation_knapsack" ->
                      is_binary /\ is_nonnegative /\ c.sense = "Equal"
               [] type = "bin_packing" ->
                      /\ is_binary
                      /\ \E capacity \in variables :
                            /\ a[capacity] = c.rhs
                            /\ \A v \in variables \ {capacity} : a[v] >= 0
                            /\ \/ c.sense = "LessEqual" /\ c.rhs > 0
                               \/ c.sense = "GreaterEqual" /\ c.rhs < 0
               [] type = "knapsack" ->
                      is_binary /\ is_nonnegative
                         /\ c.sense \in {"LessEqual", "GreaterEqual"}
               [] type = "integer_knapsack" ->
                      ~is_binary /\ is_nonnegative
                         /\ c.sense \in {"LessEqual", "GreaterEqual"}
               [] type = "general_linear" -> TRUE
               [] type = "nonlinear" -> FALSE

\* the first matching row wins
ConstraintType(c) ==
    ConstraintTypes[CHOOSE k \in DOMAIN ConstraintTypes :
                       /\ MatchesRow(ConstraintTypes[k], c)
                       /\ \A j \in 1..(k - 1) : ~MatchesRow(ConstraintTypes[j], c)]

\* only the enabled constraints are categorized
EnabledConstraintsOnly(m) ==
    {g \in DOMAIN m.constraints : m.is_enabled[g]}

\* the constraints categorize_constraints goes through: all of them, the
\* disabled ones too
CategorizedConstraints(m) ==
    DOMAIN m.constraints

\* the constraint_type_reference: per type the constraints of that type, in
\* the order of the model
RECURSIVE AppendTypes(_, _, _)
AppendTypes(m, g, reference) ==
    IF g > Len(m.constraints) THEN reference
    ELSE AppendTypes(m, g + 1,
             IF g \in CategorizedConstraints(m)
             THEN [reference EXCEPT ![ConstraintType(m.constraints[g])] = Append(@, g)]
             ELSE reference)

EmptyReference ==
    [type \in {ConstraintTypes[k] : k \in DOMAIN ConstraintTypes} |-> <<>>]

CategorizeConstraints(m) ==
    [m EXCEPT !.constraint_type_reference = AppendTypes(m, 1, EmptyReference)]

CategorizeInit ==
    /\ SolverIdle
    /\ pc = "categorize"
    /\ \E constraints \in [1..NumberOfCategorizedConstraints -> TestShapes] :
          model_object = [kind |-> "categorize",
                          constraints |-> constraints,
                          is_enabled |-> [g \in DOMAIN constraints |-> TRUE],
                          constraint_type_reference |-> EmptyReference]
    /\ model_log = [operation |-> "none"]

\* constraint.disable() and constraint.enable()
SetEnabled ==
    /\ pc = "categorize"
    /\ \E g \in DOMAIN model_object.constraints :
          model_object' = [model_object EXCEPT !.is_enabled[g] = ~@]
    /\ model_log' = [operation |-> "set_enabled"]
    /\ UNCHANGED solver_idle_vars

\* model.categorize_constraints()
CategorizeConstraintsCall ==
    /\ pc = "categorize"
    /\ model_object' = CategorizeConstraints(model_object)
    /\ model_log' = [operation |-> "categorize_constraints"]
    /\ UNCHANGED solver_idle_vars

CategorizeNext ==
    \/ SetEnabled
    \/ CategorizeConstraintsCall

CategorizeSpec ==
    CategorizeInit /\ [][CategorizeNext]_vars

\* the number of buckets a constraint is in
NumberOfBucketsOf(g) ==
    Cardinality({type \in DOMAIN model_object.constraint_type_reference :
                    \E k \in DOMAIN model_object.constraint_type_reference[type] :
                        model_object.constraint_type_reference[type][k] = g})

\* C22: after categorize_constraints every constraint, enabled or disabled,
\* is in exactly one bucket, the one of the first matching row of the table;
\* the bucket sizes sum to the number of constraints; the constraints of the
\* test are in the buckets the test names, 2x + 3y = 10 in aggregation
C22_OneBucketPerConstraint ==
    model_log.operation = "categorize_constraints" =>
        LET reference == model_object.constraint_type_reference
        IN  /\ \A g \in DOMAIN model_object.constraints :
                  /\ NumberOfBucketsOf(g) = 1
                  /\ \E k \in DOMAIN ConstraintTypes :
                        /\ \E j \in DOMAIN reference[ConstraintTypes[k]] :
                              reference[ConstraintTypes[k]][j] = g
                        /\ MatchesRow(ConstraintTypes[k], model_object.constraints[g])
                        /\ \A j \in 1..(k - 1) :
                              ~MatchesRow(ConstraintTypes[j], model_object.constraints[g])
                  /\ \E j \in DOMAIN reference[model_object.constraints[g].name] :
                        reference[model_object.constraints[g].name][j] = g
            /\ SumOf([type \in DOMAIN reference |-> Len(reference[type])],
                     DOMAIN reference) = Len(model_object.constraints)

\* categorize_constraints has run on a model with the disabled constraint
\* 2x + 3y = 10 and another constraint of another type
C22_Witness ==
    /\ model_log.operation = "categorize_constraints"
    /\ \E g, h \in DOMAIN model_object.constraints :
          /\ model_object.constraints[g].sensitivities
                = [v \in {"x", "y"} |-> IF v = "x" THEN 2 ELSE 3]
          /\ model_object.constraints[g].sense = "Equal"
          /\ ~model_object.is_enabled[g]
          /\ Len(model_object.constraint_type_reference["aggregation"]) = 1
          /\ Len(model_object.constraint_type_reference["general_linear"]) = 1
          /\ model_object.constraints[h].name = "general_linear"

(***************************************************************************)
(* Model::categorize_variables on the model of the unit test               *)
(* categorize_variables: variables with bounds 0, 1 and variables with     *)
(* bounds -10, 10, some of them fixed by fix_by(0).                        *)
(***************************************************************************)
NumberOfCategorizedVariables == 3

\* create_variable(name, 0, 1) gives a Binary variable, create_variable(name,
\* -10, 10) an Integer one
VariableSenses ==
    {"Binary", "Integer"}

\* the three categories as a partition: a fixed variable is listed as fixed
\* only
CategorizeVariablesAsPartition(m) ==
    [m EXCEPT
        !.variable_reference =
            [variable_ptrs |-> DOMAIN m.sense,
             fixed_variable_ptrs |-> {i \in DOMAIN m.sense : m.is_fixed[i]},
             selection_variable_ptrs |-> {},
             binary_variable_ptrs |->
                 {i \in DOMAIN m.sense : m.sense[i] = "Binary" /\ ~m.is_fixed[i]},
             integer_variable_ptrs |->
                 {i \in DOMAIN m.sense : m.sense[i] = "Integer" /\ ~m.is_fixed[i]}]]

\* the variable_reference after categorize_variables: every variable, the
\* fixed ones, and the variables of each sense, a fixed variable among them
CategorizeVariables(m) ==
    [m EXCEPT
        !.variable_reference =
            [variable_ptrs |-> DOMAIN m.sense,
             fixed_variable_ptrs |-> {i \in DOMAIN m.sense : m.is_fixed[i]},
             selection_variable_ptrs |-> {i \in DOMAIN m.sense : m.sense[i] = "Selection"},
             binary_variable_ptrs |-> {i \in DOMAIN m.sense : m.sense[i] = "Binary"},
             integer_variable_ptrs |-> {i \in DOMAIN m.sense : m.sense[i] = "Integer"}]]

EmptyVariableReference ==
    [variable_ptrs |-> {}, fixed_variable_ptrs |-> {}, selection_variable_ptrs |-> {},
     binary_variable_ptrs |-> {}, integer_variable_ptrs |-> {}]

VariableInit ==
    /\ SolverIdle
    /\ pc = "variables"
    /\ \E sense \in [1..NumberOfCategorizedVariables -> VariableSenses] :
          model_object = [kind |-> "variables",
                          sense |-> sense,
                          is_fixed |-> [i \in DOMAIN sense |-> FALSE],
                          value |-> [i \in DOMAIN sense |-> 0],
                          variable_reference |-> EmptyVariableReference]
    /\ model_log = [operation |-> "none"]

\* x.fix_by(0)
FixBy ==
    /\ pc = "variables"
    /\ \E i \in DOMAIN model_object.sense :
          /\ ~model_object.is_fixed[i]
          /\ model_object' = [model_object EXCEPT !.is_fixed[i] = TRUE, !.value[i] = 0]
    /\ model_log' = [operation |-> "fix_by"]
    /\ UNCHANGED solver_idle_vars

\* model.categorize_variables()
CategorizeVariablesCall ==
    /\ pc = "variables"
    /\ model_object' = CategorizeVariables(model_object)
    /\ model_log' = [operation |-> "categorize_variables"]
    /\ UNCHANGED solver_idle_vars

VariableNext ==
    \/ FixBy
    \/ CategorizeVariablesCall

VariableSpec ==
    VariableInit /\ [][VariableNext]_vars

\* C23: after categorize_variables with no selection extracted every variable
\* is counted in exactly one of Fixed, Binary and Integer, so that
\* number_of_fixed_variables + number_of_binary_variables +
\* number_of_integer_variables = number_of_variables
C23_VariablesPartitioned ==
    model_log.operation = "categorize_variables" =>
        LET reference == model_object.variable_reference
        IN  /\ \A i \in reference.variable_ptrs :
                  Cardinality({category \in {"fixed_variable_ptrs",
                                             "binary_variable_ptrs",
                                             "integer_variable_ptrs"} :
                                  i \in reference[category]}) = 1
            /\ Cardinality(reference.fixed_variable_ptrs)
                  + Cardinality(reference.binary_variable_ptrs)
                  + Cardinality(reference.integer_variable_ptrs)
                 = Cardinality(reference.variable_ptrs)

\* C23: after categorize_variables with no selection extracted every variable
\* is counted under exactly one of Binary and Integer, fixed or not, so that
\* number_of_binary_variables + number_of_integer_variables =
\* number_of_variables, and the fixed variables are counted once more as Fixed
C23_VariablesCountedBySense ==
    model_log.operation = "categorize_variables" =>
        LET reference == model_object.variable_reference
        IN  /\ reference.variable_ptrs = DOMAIN model_object.sense
            /\ \A i \in reference.variable_ptrs :
                  /\ i \in reference.binary_variable_ptrs
                        <=> model_object.sense[i] = "Binary"
                  /\ i \in reference.integer_variable_ptrs
                        <=> model_object.sense[i] = "Integer"
                  /\ i \in reference.fixed_variable_ptrs <=> model_object.is_fixed[i]
            /\ reference.binary_variable_ptrs \cap reference.integer_variable_ptrs = {}
            /\ Cardinality(reference.binary_variable_ptrs)
                  + Cardinality(reference.integer_variable_ptrs)
                 = Cardinality(reference.variable_ptrs)

\* categorize_variables has run on a model with a fixed Binary variable, a
\* fixed Integer variable and a variable that is not fixed, as in the test
C23_Witness ==
    /\ model_log.operation = "categorize_variables"
    /\ \E i, j, k \in DOMAIN model_object.sense :
          /\ model_object.sense[i] = "Binary" /\ model_object.is_fixed[i]
          /\ model_object.sense[j] = "Integer" /\ model_object.is_fixed[j]
          /\ ~model_object.is_fixed[k]
          /\ i \in model_object.variable_reference.fixed_variable_ptrs
          /\ i \in model_object.variable_reference.binary_variable_ptrs

(***************************************************************************)
(* Model::extract_selections in the modes Defined, Independent and Larger, *)
(* on models like those of the unit tests extract_selections_independent   *)
(* and extract_selections_larger: six binary variables and constraints     *)
(* x.selection(range), the sum of a range of the variables == 1.           *)
(***************************************************************************)
NumberOfSelectionConstraints == 3

SelectionVariableNames ==
    <<"x0", "x1", "x2", "x3", "x4", "x5">>

\* the ranges of two or more variables
SelectionRanges ==
    {{SelectionVariableNames[k] : k \in range[1]..range[2]} :
        range \in {r \in (DOMAIN SelectionVariableNames) \X (DOMAIN SelectionVariableNames) :
                      r[1] < r[2]}}

\* x.selection(range)
SelectionConstraints ==
    {LinearConstraint("selection", [v \in range |-> 1], "Equal", 1) :
        range \in SelectionRanges}

VariablePtrs(m, g) ==
    DOMAIN m.constraints[g].sensitivities

\* the raw selections: the enabled constraints of the set partitioning
\* bucket, in the order of the model
RECURSIVE RawSelectionsFrom(_, _)
RawSelectionsFrom(m, g) ==
    IF g > Len(m.constraints) THEN <<>>
    ELSE (IF m.is_enabled[g] /\ ConstraintType(m.constraints[g]) = "set_partitioning"
          THEN <<g>> ELSE <<>>) \o RawSelectionsFrom(m, g + 1)

RawSelections(m) ==
    RawSelectionsFrom(m, 1)

\* the variables of the selections kept so far
Covered(m, kept) ==
    UNION {VariablePtrs(m, kept[k]) : k \in DOMAIN kept}

\* a group is kept when one of its variables is not covered yet
KeepsWithAnUncoveredVariable(m, g, kept) ==
    VariablePtrs(m, g) \ Covered(m, kept) # {}

\* a group is kept when none of its variables is covered by a kept group
KeepsInOrder(m, g, kept) ==
    VariablePtrs(m, g) \cap Covered(m, kept) = {}

\* the raw selections gone through in the given order
RECURSIVE ExtractInOrder(_, _, _, _)
ExtractInOrder(m, order, k, kept) ==
    IF k > Len(order) THEN kept
    ELSE ExtractInOrder(m, order, k + 1,
             IF KeepsInOrder(m, order[k], kept) THEN Append(kept, order[k]) ELSE kept)

\* Defined: every raw selection is extracted
ExtractDefined(m, raw) ==
    raw

\* a group is kept when it is disjoint from the groups extracted before it
ExtractDisjointFromEarlier(m, raw) ==
    ExtractInOrder(m, raw, 1, <<>>)

\* Independent: the raw selections that share no variable with another raw
\* selection
RECURSIVE ExtractIndependentFrom(_, _, _)
ExtractIndependentFrom(m, raw, k) ==
    IF k > Len(raw) THEN <<>>
    ELSE (IF \A j \in DOMAIN raw :
                j # k => VariablePtrs(m, raw[j]) \cap VariablePtrs(m, raw[k]) = {}
          THEN <<raw[k]>> ELSE <<>>) \o ExtractIndependentFrom(m, raw, k + 1)

ExtractIndependent(m, raw) ==
    ExtractIndependentFrom(m, raw, 1)

\* Larger: the orders std::sort may leave the raw selections in, by
\* descending number of variables
LargerOrders(m, raw) ==
    {order \in [DOMAIN raw -> {raw[k] : k \in DOMAIN raw}] :
        /\ \A j, k \in DOMAIN order : j # k => order[j] # order[k]
        /\ \A j, k \in DOMAIN order :
              j < k => Cardinality(VariablePtrs(m, order[j]))
                          >= Cardinality(VariablePtrs(m, order[k]))}

\* the extracted constraints are disabled and their variables become
\* Selection variables
WithSelections(m, selections) ==
    [m EXCEPT
        !.selections = selections,
        !.is_enabled = [g \in DOMAIN @ |->
                           @[g] /\ ~\E k \in DOMAIN selections : selections[k] = g],
        !.sense = [v \in DOMAIN @ |->
                      IF v \in Covered(m, selections) THEN "Selection" ELSE @[v]]]

ExtractInit ==
    /\ SolverIdle
    /\ pc = "extract"
    /\ \E constraints \in [1..NumberOfSelectionConstraints -> SelectionConstraints] :
          model_object =
              [kind |-> "selections",
               constraints |-> constraints,
               is_enabled |-> [g \in DOMAIN constraints |-> TRUE],
               sense |-> [v \in {SelectionVariableNames[k] :
                                    k \in DOMAIN SelectionVariableNames} |-> "Binary"],
               selections |-> <<>>]
    /\ model_log = [operation |-> "none", mode |-> "None",
                    raw_selections |-> <<>>, order |-> <<>>]

\* model.extract_selections(SelectionMode::Defined)
ExtractSelectionsDefined ==
    /\ pc = "extract"
    /\ \E raw \in {RawSelections(model_object)} :
          /\ model_object' = WithSelections(model_object,
                                            ExtractDefined(model_object, raw))
          /\ model_log' = [operation |-> "extract_selections", mode |-> "Defined",
                           raw_selections |-> raw, order |-> raw]
    /\ pc' = "extracted"
    /\ UNCHANGED <<option, mdl, is_solved, variable_values, setup_count, solve_calls,
                   error, solver_vars, last_call>>

\* model.extract_selections(SelectionMode::Independent)
ExtractSelectionsIndependent ==
    /\ pc = "extract"
    /\ \E raw \in {RawSelections(model_object)} :
          /\ model_object' = WithSelections(model_object,
                                            ExtractIndependent(model_object, raw))
          /\ model_log' = [operation |-> "extract_selections", mode |-> "Independent",
                           raw_selections |-> raw, order |-> raw]
    /\ pc' = "extracted"
    /\ UNCHANGED <<option, mdl, is_solved, variable_values, setup_count, solve_calls,
                   error, solver_vars, last_call>>

\* model.extract_selections(SelectionMode::Larger)
ExtractSelectionsLarger ==
    /\ pc = "extract"
    /\ \E raw \in {RawSelections(model_object)} :
       \E order \in LargerOrders(model_object, raw) :
          /\ model_object' = WithSelections(model_object,
                                            ExtractInOrder(model_object, order, 1, <<>>))
          /\ model_log' = [operation |-> "extract_selections", mode |-> "Larger",
                           raw_selections |-> raw, order |-> order]
    /\ pc' = "extracted"
    /\ UNCHANGED <<option, mdl, is_solved, variable_values, setup_count, solve_calls,
                   error, solver_vars, last_call>>

ExtractNext ==
    \/ ExtractSelectionsDefined
    \/ ExtractSelectionsIndependent
    \/ ExtractSelectionsLarger

ExtractSpec ==
    ExtractInit /\ [][ExtractNext]_vars

\* the constraints extracted as selections
Extracted ==
    {model_object.selections[k] : k \in DOMAIN model_object.selections}

\* every extracted constraint is disabled and its variables are Selection
\* variables; the other constraints stay enabled and the other variables
\* Binary
ExtractedAreDisabledAndReclassified ==
    /\ \A g \in DOMAIN model_object.constraints :
          model_object.is_enabled[g] <=> g \notin Extracted
    /\ \A v \in DOMAIN model_object.sense :
          model_object.sense[v]
             = IF \E g \in Extracted : v \in VariablePtrs(model_object, g)
               THEN "Selection" ELSE "Binary"

\* C24 as stated: in Independent mode a candidate is extracted iff its
\* variables are disjoint from the groups extracted before it
C24_DisjointFromExtractedBefore ==
    (pc = "extracted" /\ model_log.mode = "Independent") =>
        \A k \in DOMAIN model_log.order :
            model_log.order[k] \in Extracted
               <=> \A j \in 1..(k - 1) :
                      model_log.order[j] \in Extracted
                         => VariablePtrs(model_object, model_log.order[j])
                               \cap VariablePtrs(model_object, model_log.order[k]) = {}

\* C24: in Independent mode a candidate selection constraint is extracted iff
\* its variables are disjoint from those of every other candidate, extracted
\* or not; each extracted constraint is disabled and its variables are
\* reclassified from Binary to Selection
C24_IndependentOfAllCandidates ==
    (pc = "extracted" /\ model_log.mode = "Independent") =>
        /\ Extracted \subseteq {model_log.raw_selections[k] :
                                   k \in DOMAIN model_log.raw_selections}
        /\ \A k \in DOMAIN model_log.raw_selections :
              model_log.raw_selections[k] \in Extracted
                 <=> \A j \in DOMAIN model_log.raw_selections :
                        j # k => VariablePtrs(model_object, model_log.raw_selections[j])
                                    \cap VariablePtrs(model_object,
                                                      model_log.raw_selections[k]) = {}
        /\ ExtractedAreDisabledAndReclassified

\* Independent mode has extracted one candidate and left two candidates that
\* overlap each other, the first of them disjoint from the extracted one
C24_Witness ==
    /\ pc = "extracted"
    /\ model_log.mode = "Independent"
    /\ Len(model_object.selections) = 1
    /\ Len(model_log.raw_selections) = 3
    /\ \E j, k \in DOMAIN model_log.raw_selections :
          /\ j < k
          /\ model_log.raw_selections[j] \notin Extracted
          /\ model_log.raw_selections[k] \notin Extracted
          /\ VariablePtrs(model_object, model_log.raw_selections[j])
                \cap VariablePtrs(model_object, model_log.raw_selections[k]) # {}
          /\ VariablePtrs(model_object, model_log.raw_selections[j])
                \cap Covered(model_object, model_object.selections) = {}

\* C25 as stated: in Larger mode the candidates are gone through by
\* descending size and one is kept iff at least one of its variables is not
\* covered by a group kept before it
C25_KeptWithAnUncoveredVariable ==
    (pc = "extracted" /\ model_log.mode = "Larger") =>
        \A k \in DOMAIN model_log.order :
            model_log.order[k] \in Extracted
               <=> \E v \in VariablePtrs(model_object, model_log.order[k]) :
                      \A j \in 1..(k - 1) :
                          model_log.order[j] \in Extracted
                             => v \notin VariablePtrs(model_object, model_log.order[j])

\* C25: in Larger mode the candidates are gone through by descending size and
\* one is kept iff none of its variables is covered by a group kept before
\* it; each kept constraint is disabled and its variables are reclassified
\* from Binary to Selection
C25_KeptWhenDisjointFromKept ==
    (pc = "extracted" /\ model_log.mode = "Larger") =>
        /\ \A j, k \in DOMAIN model_log.order :
              j < k => Cardinality(VariablePtrs(model_object, model_log.order[j]))
                          >= Cardinality(VariablePtrs(model_object, model_log.order[k]))
        /\ {model_log.order[k] : k \in DOMAIN model_log.order}
              = {model_log.raw_selections[k] : k \in DOMAIN model_log.raw_selections}
        /\ Extracted \subseteq {model_log.order[k] : k \in DOMAIN model_log.order}
        /\ \A k \in DOMAIN model_log.order :
              model_log.order[k] \in Extracted
                 <=> \A j \in 1..(k - 1) :
                        model_log.order[j] \in Extracted
                           => VariablePtrs(model_object, model_log.order[j])
                                 \cap VariablePtrs(model_object, model_log.order[k]) = {}
        /\ ExtractedAreDisabledAndReclassified

\* Larger mode has kept the largest group and a smaller one, and has dropped
\* a group in between that shares a variable with the largest and has
\* another variable no kept group covers, as c1 of the test
C25_Witness ==
    /\ pc = "extracted"
    /\ model_log.mode = "Larger"
    /\ Len(model_log.order) = 3
    /\ model_log.order[1] \in Extracted
    /\ model_log.order[2] \notin Extracted
    /\ model_log.order[3] \in Extracted
    /\ VariablePtrs(model_object, model_log.order[2])
          \cap VariablePtrs(model_object, model_log.order[1]) # {}
    /\ VariablePtrs(model_object, model_log.order[2])
          \ VariablePtrs(model_object, model_log.order[1]) # {}

(***************************************************************************)
(* The relaxing of the local penalty coefficients (solver.h:688-709).      *)
(***************************************************************************)
\* C26: in the relax branch only the local coefficients of the constraints
\* whose violation in the loop's local incumbent solution is below epsilon
\* are multiplied by penalty_coefficient_relaxing_rate; the local
\* coefficients of the violated constraints and all global coefficients are
\* left unchanged.
C26_RelaxOnlySatisfied ==
    /\ [](loop_log.branch = "relax" =>
             \A p \in ProxyIds : \A i \in FlatIndices(p) :
                 LET violation ==
                         loop_log.result_local_solution.violation_value_proxies[p][i]
                     rate == master_option.penalty_coefficient_relaxing_rate
                     before == loop_log.local_before[p][i]
                 IN  local_penalty_coefficient_proxies[p][i] =
                         IF violation <= 0
                         THEN (before * rate[1]) \div rate[2]
                         ELSE before)
    /\ [][(pc = "outer_loop" /\ loop_log'.branch = "relax") =>
             global_penalty_coefficient_proxies' =
                 global_penalty_coefficient_proxies]_vars

\* a relaxing after a loop whose local incumbent violates one constraint and
\* satisfies another: the first coefficient is kept, the second is lowered
C26_Witness ==
    /\ loop_log.branch = "relax"
    /\ \E p \in ProxyIds : \E i \in FlatIndices(p) :
         /\ loop_log.result_local_solution.violation_value_proxies[p][i] > 0
         /\ loop_log.local_before[p][i] > 0
         /\ local_penalty_coefficient_proxies[p][i] = loop_log.local_before[p][i]
    /\ \E p \in ProxyIds : \E i \in FlatIndices(p) :
         /\ loop_log.result_local_solution.violation_value_proxies[p][i] = 0
         /\ local_penalty_coefficient_proxies[p][i] < loop_log.local_before[p][i]

(***************************************************************************)
(* The target of a model without objective (solver.h:64-85, 494-502).      *)
(***************************************************************************)
\* C27: if the model has no objective function and target_objective_value
\* is left at its default, the target is set to 0 and the outer loop starts
\* no further tabu loop once any feasible solution has been found.
C27_NoObjectiveStopsWhenFeasible ==
    /\ [](is_solved /\ ~mdl.is_defined_objective
             /\ option.target_objective_value = DEFAULT_TARGET_OBJECTIVE =>
                 master_option.target_objective_value = 0)
    /\ [][(number_of_tabu_search_loops' = number_of_tabu_search_loops + 1
             /\ ~mdl.is_defined_objective
             /\ option.target_objective_value = DEFAULT_TARGET_OBJECTIVE) =>
                 ~incumbent_holder.found_feasible_solution]_vars

\* a solve of a model without objective and with the default target that
\* ended on the target right after the tabu loop that found the first
\* feasible solution, with iterations left
C27_Witness ==
    /\ termination = "target"
    /\ ~mdl.is_defined_objective
    /\ option.target_objective_value = DEFAULT_TARGET_OBJECTIVE
    /\ number_of_tabu_search_loops >= 1
    /\ number_of_tabu_search_loops < master_option.iteration_max
    /\ HasBit(loop_log.total_update_status, STATUS_FEASIBLE_INCUMBENT_UPDATE)
    /\ incumbent_holder.found_feasible_solution

(***************************************************************************)
(* The initial tabu tenure of the next tabu loop (solver.h:460-465,        *)
(* 507-517, 611, 711-736) and the bias of the Memory (memory.h).  The tabu *)
(* search itself is a choice of its total update status and of the moves   *)
(* it records in the memory.                                               *)
(***************************************************************************)
NumberOfMemoryVariables == 2
MaxTenure == 3
MaxTenureLoops == 3
MaxMovesPerLoop == 1

\* Memory::initialize and the Memory(model) constructor: no update yet
InitialMemory ==
    [update_counts |-> [j \in 1..NumberOfMemoryVariables |-> 0],
     total_update_counts |-> 0]

\* Memory::update(a_MOVE, a_ITERATION) for a move that alters variable j
MemoryUpdate(memory, j) ==
    [update_counts |-> [memory.update_counts EXCEPT ![j] = @ + 1],
     total_update_counts |-> memory.total_update_counts + 1]

\* the memory after the moves of a search: moves[j] is the number of moves
\* that alter variable j, and the order of the moves makes no difference to
\* the counts
RECURSIVE MemoryAfter(_, _)
MemoryAfter(memory, moves) ==
    IF \A j \in DOMAIN moves : moves[j] = 0 THEN memory
    ELSE LET j == CHOOSE k \in DOMAIN moves : moves[k] > 0
         IN  MemoryAfter(MemoryUpdate(memory, j), [moves EXCEPT ![j] = @ - 1])

\* mutant: the sum of the squared counts is divided by the total, not by
\* its square
BiasOverTotal(memory) ==
    <<SumOf([j \in 1..NumberOfMemoryVariables |->
                memory.update_counts[j] * memory.update_counts[j]],
            1..NumberOfMemoryVariables),
      memory.total_update_counts>>

\* Memory::bias(): the sum of the squared frequencies, as the fraction
\* <<numerator, denominator>>; with no update yet every frequency is 0/0.0
\* and the bias is not a number, written <<0, 0>>
Bias(memory) ==
    <<SumOf([j \in 1..NumberOfMemoryVariables |->
                memory.update_counts[j] * memory.update_counts[j]],
            1..NumberOfMemoryVariables),
      memory.total_update_counts * memory.total_update_counts>>

\* a > b for two doubles: false when either is not a number
BiasGreater(a, b) ==
    /\ a[2] > 0
    /\ b[2] > 0
    /\ a[1] * b[2] > b[1] * a[2]

\* mutant: the tenure is stepped from the configured tenure, not from the
\* tenure of the loop that has just run
NextInitialTabuTenureFromConfigured(tabu_search, loop_tenure, next_before, total_update_status, bias, previous_bias, number_of_not_fixed_variables) ==
    IF tabu_search.is_enabled_automatic_tabu_tenure_adjustment
    THEN IF HasBit(total_update_status, STATUS_GLOBAL_AUGMENTED_INCUMBENT_UPDATE)
         THEN Min(tabu_search.initial_tabu_tenure, number_of_not_fixed_variables)
         ELSE IF BiasGreater(bias, previous_bias)
         THEN Min(tabu_search.initial_tabu_tenure + 1, number_of_not_fixed_variables)
         ELSE IF BiasGreater(previous_bias, bias)
         THEN Max(tabu_search.initial_tabu_tenure - 1, 1)
         ELSE next_before
    ELSE tabu_search.initial_tabu_tenure

\* solver.h:716-736: tabu_search is master_option.tabu_search, loop_tenure is
\* option.tabu_search.initial_tabu_tenure of the loop, next_before is
\* next_inital_tabu_tenure before the update
NextInitialTabuTenure(tabu_search, loop_tenure, next_before, total_update_status, bias, previous_bias, number_of_not_fixed_variables) ==
    IF tabu_search.is_enabled_automatic_tabu_tenure_adjustment
    THEN IF HasBit(total_update_status, STATUS_GLOBAL_AUGMENTED_INCUMBENT_UPDATE)
         THEN Min(tabu_search.initial_tabu_tenure, number_of_not_fixed_variables)
         ELSE IF BiasGreater(bias, previous_bias)
         THEN Min(loop_tenure + 1, number_of_not_fixed_variables)
         ELSE IF BiasGreater(previous_bias, bias)
         THEN Max(loop_tenure - 1, 1)
         ELSE next_before
    ELSE tabu_search.initial_tabu_tenure

\* the moves of a search, at most n, each altering one not fixed variable:
\* per variable the number of moves that alter it
MoveSequences(n, number_of_not_fixed_variables) ==
    {moves \in [1..NumberOfMemoryVariables -> 0..n] :
        /\ SumOf(moves, 1..NumberOfMemoryVariables) <= n
        /\ \A j \in 1..NumberOfMemoryVariables :
               j > number_of_not_fixed_variables => moves[j] = 0}

\* the total update statuses of a tabu search: nothing, the local augmented
\* incumbent, also the global augmented one, also the feasible one
TotalUpdateStatuses ==
    {STATUS_NO_UPDATED,
     STATUS_LOCAL_AUGMENTED_INCUMBENT_UPDATE,
     STATUS_LOCAL_AUGMENTED_INCUMBENT_UPDATE + STATUS_GLOBAL_AUGMENTED_INCUMBENT_UPDATE,
     STATUS_LOCAL_AUGMENTED_INCUMBENT_UPDATE + STATUS_GLOBAL_AUGMENTED_INCUMBENT_UPDATE
         + STATUS_FEASIBLE_INCUMBENT_UPDATE}

\* solver.h:192, 383, 420, 460-465: the state at the first tabu loop; the
\* memory holds the moves of the local search, if it ran
TenureInit ==
    /\ SolverIdle
    /\ pc = "tenure"
    /\ \E tenure \in 1..MaxTenure, adjust \in BOOLEAN,
          n \in 1..NumberOfMemoryVariables :
       \E moves \in MoveSequences(1, n) :
       \E memory \in {MemoryAfter(InitialMemory, moves)} :
          model_object =
              [kind |-> "tenure",
               tabu_search |->
                   [initial_tabu_tenure |-> tenure,
                    is_enabled_automatic_tabu_tenure_adjustment |-> adjust],
               number_of_not_fixed_variables |-> n,
               memory |-> memory,
               bias |-> Bias(memory),
               next_inital_tabu_tenure |-> tenure,
               iteration |-> 0]
    /\ model_log = [operation |-> "none", tenure |-> 0, next_before |-> 0,
                    total_update_status |-> STATUS_NO_UPDATED,
                    previous_bias |-> <<0, 0>>, bias |-> <<0, 0>>]

\* solver.h:507-535, 611, 711-736: one tabu loop, as far as the tenure goes
TenureLoop ==
    /\ pc = "tenure"
    /\ model_object.iteration < MaxTenureLoops
    /\ \E total_update_status \in TotalUpdateStatuses :
       \E moves \in MoveSequences(MaxMovesPerLoop,
                                  model_object.number_of_not_fixed_variables) :
       \E memory \in {MemoryAfter(model_object.memory, moves)} :
          LET loop_tenure == model_object.next_inital_tabu_tenure
              previous_bias == model_object.bias
              bias == Bias(memory)
          IN  /\ model_object' =
                    [model_object EXCEPT
                        !.memory = memory,
                        !.bias = bias,
                        !.next_inital_tabu_tenure =
                            NextInitialTabuTenure(
                                model_object.tabu_search, loop_tenure,
                                model_object.next_inital_tabu_tenure,
                                total_update_status, bias, previous_bias,
                                model_object.number_of_not_fixed_variables),
                        !.iteration = @ + 1]
              /\ model_log' = [operation |-> "tabu_search", tenure |-> loop_tenure,
                               next_before |-> model_object.next_inital_tabu_tenure,
                               total_update_status |-> total_update_status,
                               previous_bias |-> previous_bias, bias |-> bias]
    /\ UNCHANGED solver_idle_vars

TenureNext ==
    TenureLoop

TenureSpec ==
    TenureInit /\ [][TenureNext]_vars

\* the bias of the log as a comparison of two numbers
BiasRose ==
    /\ model_log.bias[2] > 0
    /\ model_log.previous_bias[2] > 0
    /\ model_log.bias[1] * model_log.previous_bias[2]
           > model_log.previous_bias[1] * model_log.bias[2]

BiasFell ==
    /\ model_log.bias[2] > 0
    /\ model_log.previous_bias[2] > 0
    /\ model_log.bias[1] * model_log.previous_bias[2]
           < model_log.previous_bias[1] * model_log.bias[2]

BiasEqual ==
    /\ model_log.bias[2] > 0
    /\ model_log.previous_bias[2] > 0
    /\ model_log.bias[1] * model_log.previous_bias[2]
           = model_log.previous_bias[1] * model_log.bias[2]

\* C28: with automatic tabu tenure adjustment enabled, the initial tenure
\* for the next loop is min(configured initial tenure,
\* number_of_not_fixed_variables) after a loop that updated the global
\* augmented incumbent; otherwise the loop's tenure + 1 capped at
\* number_of_not_fixed_variables when the bias of the Memory rose compared
\* with the previous loop, the loop's tenure - 1 floored at 1 when it fell,
\* and the loop's tenure when it is equal; with the adjustment disabled it
\* is always the configured initial tenure.
C28_NextTabuTenure ==
    (pc = "tenure" /\ model_log.operation = "tabu_search") =>
        LET configured == model_object.tabu_search.initial_tabu_tenure
            n == model_object.number_of_not_fixed_variables
            next == model_object.next_inital_tabu_tenure
        IN  IF ~model_object.tabu_search.is_enabled_automatic_tabu_tenure_adjustment
            THEN next = configured
            ELSE IF (model_log.total_update_status \div 2) % 2 = 1
            THEN next = (IF configured <= n THEN configured ELSE n)
            ELSE /\ BiasRose =>
                       next = (IF model_log.tenure + 1 <= n
                               THEN model_log.tenure + 1 ELSE n)
                 /\ BiasFell =>
                       next = (IF model_log.tenure - 1 >= 1
                               THEN model_log.tenure - 1 ELSE 1)
                 /\ BiasEqual => next = model_log.tenure

\* a loop without global update whose bias rose and whose tenure had already
\* been stepped away from the configured one: the step starts from the
\* loop's tenure
C28_Witness ==
    /\ pc = "tenure"
    /\ model_log.operation = "tabu_search"
    /\ model_object.tabu_search.is_enabled_automatic_tabu_tenure_adjustment
    /\ ~HasBit(model_log.total_update_status, STATUS_GLOBAL_AUGMENTED_INCUMBENT_UPDATE)
    /\ BiasRose
    /\ model_log.tenure # model_object.tabu_search.initial_tabu_tenure
    /\ model_object.next_inital_tabu_tenure = model_log.tenure + 1

(***************************************************************************)
(* The special neighborhood moves (solver.h:150-153, 471, 507-511,         *)
(* 775-900): enabled when the optimization stagnates, disabled when the    *)
(* global augmented incumbent is updated.  The tabu search is a choice of  *)
(* its total update status, of its early stop and of the iteration of its  *)
(* last update of the local augmented incumbent.                           *)
(***************************************************************************)
MaxTabuSearchIterationMax == 3
MaxNeighborhoodLoops == 3

\* the special move families, in the order of solver.h:808-848
SpecialMoves ==
    {"aggregation", "precedence", "variable_bound", "exclusive", "chain"}

\* tabu_search.iteration_increase_rate, as <<numerator, denominator>>
ITERATION_INCREASE_RATE == <<3, 2>>

\* solver.h:778-800 next_iteration_max after a loop
NextIterationMax(a_master_option, a_option, a_result, a_next_iteration_max) ==
    IF a_master_option.tabu_search.is_enabled_automatic_iteration_adjustment
          /\ ~a_result.is_early_stopped
    THEN LET rate == a_master_option.tabu_search.iteration_increase_rate
             next_iteration_max_temp ==
                 IF HasBit(a_result.total_update_status,
                           STATUS_GLOBAL_AUGMENTED_INCUMBENT_UPDATE)
                 THEN CeilDiv(a_result.last_local_augmented_incumbent_update_iteration
                                  * rate[1], rate[2])
                 ELSE CeilDiv(a_option.tabu_search.iteration_max * rate[1], rate[2])
         IN  Max(a_master_option.tabu_search.initial_tabu_tenure,
                 Min(a_master_option.tabu_search.iteration_max,
                     next_iteration_max_temp))
    ELSE a_next_iteration_max

\* mutant: the moves are enabled after every loop without global update that
\* was not stopped early, whatever its iteration_max
UpdateSpecialNeighborhoodMovesAfterShortLoops(a_master_option, a_option, a_result, is_enabled) ==
    [f \in SpecialMoves |->
        IF ~a_master_option.is_enabled_move[f] THEN is_enabled[f]
        ELSE IF HasBit(a_result.total_update_status,
                       STATUS_GLOBAL_AUGMENTED_INCUMBENT_UPDATE)
        THEN FALSE
        ELSE IF ~a_result.is_early_stopped THEN TRUE
        ELSE is_enabled[f]]

\* solver.h:802-900: is_enabled[f] is neighborhood().is_enabled_<f>_move()
UpdateSpecialNeighborhoodMoves(a_master_option, a_option, a_result, is_enabled) ==
    [f \in SpecialMoves |->
        IF ~a_master_option.is_enabled_move[f] THEN is_enabled[f]
        ELSE IF HasBit(a_result.total_update_status,
                       STATUS_GLOBAL_AUGMENTED_INCUMBENT_UPDATE)
        THEN FALSE
        ELSE IF ~a_result.is_early_stopped
                /\ a_option.tabu_search.iteration_max
                       = a_master_option.tabu_search.iteration_max
        THEN TRUE
        ELSE is_enabled[f]]

\* what a tabu search that ran with a_option reports to the outer loop
TabuSearchResults(a_option) ==
    [total_update_status : TotalUpdateStatuses,
     is_early_stopped : BOOLEAN,
     last_local_augmented_incumbent_update_iteration :
         0..a_option.tabu_search.iteration_max]

\* the options of the caller: any choice of the toggles of the five families
MasterOptions ==
    [is_enabled_move : [SpecialMoves -> BOOLEAN],
     tabu_search : [iteration_max : 1..MaxTabuSearchIterationMax,
                    initial_tabu_tenure : {1},
                    is_enabled_automatic_iteration_adjustment : BOOLEAN,
                    iteration_increase_rate : {ITERATION_INCREASE_RATE}]]

\* solver.h:150-153, 471: before the first tabu loop no special move is
\* enabled and next_iteration_max is the configured iteration_max
NeighborhoodInit ==
    /\ SolverIdle
    /\ pc = "neighborhood"
    /\ \E a_master_option \in MasterOptions :
          model_object =
              [kind |-> "neighborhood",
               master_option |-> a_master_option,
               is_enabled |-> [f \in SpecialMoves |-> FALSE],
               next_iteration_max |-> a_master_option.tabu_search.iteration_max,
               iteration |-> 0]
    /\ model_log = [operation |-> "none", iteration_max |-> 0,
                    total_update_status |-> STATUS_NO_UPDATED,
                    is_early_stopped |-> FALSE,
                    is_enabled_before |-> [f \in SpecialMoves |-> FALSE]]

\* solver.h:507-511, 529-535, 775-900: one tabu loop, as far as the special
\* neighborhood moves go
NeighborhoodLoop ==
    /\ pc = "neighborhood"
    /\ model_object.iteration < MaxNeighborhoodLoops
    /\ LET a_master_option == model_object.master_option
           a_option ==
               IF a_master_option.tabu_search.is_enabled_automatic_iteration_adjustment
               THEN [a_master_option EXCEPT
                        !.tabu_search.iteration_max = model_object.next_iteration_max]
               ELSE a_master_option
       IN  \E a_result \in TabuSearchResults(a_option) :
              /\ model_object' =
                    [model_object EXCEPT
                        !.next_iteration_max =
                            NextIterationMax(a_master_option, a_option, a_result,
                                             model_object.next_iteration_max),
                        !.is_enabled =
                            UpdateSpecialNeighborhoodMoves(a_master_option, a_option,
                                                           a_result,
                                                           model_object.is_enabled),
                        !.iteration = @ + 1]
              /\ model_log' = [operation |-> "tabu_search",
                               iteration_max |-> a_option.tabu_search.iteration_max,
                               total_update_status |-> a_result.total_update_status,
                               is_early_stopped |-> a_result.is_early_stopped,
                               is_enabled_before |-> model_object.is_enabled]
    /\ UNCHANGED solver_idle_vars

NeighborhoodNext ==
    NeighborhoodLoop

NeighborhoodSpec ==
    NeighborhoodInit /\ [][NeighborhoodNext]_vars

\* the last loop updated the global augmented incumbent
LoopUpdatedGlobalIncumbent ==
    (model_log.total_update_status \div STATUS_GLOBAL_AUGMENTED_INCUMBENT_UPDATE) % 2 = 1

\* C29: the solver enables an option-enabled special move family
\* (aggregation, precedence, variable-bound, exclusive, chain) only at the
\* end of a tabu loop that did not update the global augmented incumbent,
\* was not stopped early and ran with the full configured
\* tabu_search.iteration_max; it disables every currently enabled
\* option-enabled family at the end of any loop that updated the global
\* augmented incumbent; a family whose option toggle is off is never enabled
\* or disabled by the outer loop.
C29_SpecialMovesOnStagnation ==
    (pc = "neighborhood" /\ model_log.operation = "tabu_search") =>
        \A f \in SpecialMoves :
            LET toggle == model_object.master_option.is_enabled_move[f]
                before == model_log.is_enabled_before[f]
                after == model_object.is_enabled[f]
            IN  /\ (after /\ ~before) =>
                       /\ toggle
                       /\ ~LoopUpdatedGlobalIncumbent
                       /\ ~model_log.is_early_stopped
                       /\ model_log.iteration_max
                              = model_object.master_option.tabu_search.iteration_max
                /\ (toggle /\ LoopUpdatedGlobalIncumbent) => ~after
                /\ ~toggle => (after = before /\ ~after)

\* a loop without global update and without early stop that ran with a
\* shortened iteration_max and so enabled nothing, although a family is
\* switched on by the option and still disabled
C29_Witness ==
    /\ pc = "neighborhood"
    /\ model_log.operation = "tabu_search"
    /\ ~LoopUpdatedGlobalIncumbent
    /\ ~model_log.is_early_stopped
    /\ model_log.iteration_max < model_object.master_option.tabu_search.iteration_max
    /\ \E f \in SpecialMoves :
          /\ model_object.master_option.is_enabled_move[f]
          /\ ~model_object.is_enabled[f]
    /\ \E f \in SpecialMoves : ~model_object.master_option.is_enabled_move[f]

\* a loop with a global update that disabled a family enabled by an earlier
\* stagnating loop
C29_DisableWitness ==
    /\ pc = "neighborhood"
    /\ model_log.operation = "tabu_search"
    /\ LoopUpdatedGlobalIncumbent
    /\ \E f \in SpecialMoves : model_log.is_enabled_before[f] /\ ~model_object.is_enabled[f]

(***************************************************************************)
(* Model::setup_is_linear and Model::setup_is_enabled_fast_evaluation      *)
(* (tests part_000:904-1067).  A function of the model is "linear" (an     *)
(* expression) or "nonlinear" (a user-defined lambda).                     *)
(***************************************************************************)
NumberOfFunctionConstraints == 3

FunctionKinds ==
    {"linear", "nonlinear"}

\* Model::setup_is_linear: the flag it computes
SetupIsLinear(m) ==
    /\ m.objective = "linear"
    /\ \A g \in DOMAIN m.constraints : m.constraints[g] = "linear"

\* mutant: the fast evaluation is enabled for the linear models only
SetupIsEnabledFastEvaluationOfLinearModels(m) ==
    /\ m.objective = "linear"
    /\ \A g \in DOMAIN m.constraints : m.constraints[g] = "linear"
    /\ ~m.is_enabled_user_defined_move

\* Model::setup_is_enabled_fast_evaluation: the flag it computes; a nonlinear
\* objective with linear constraints leaves it true
SetupIsEnabledFastEvaluation(m) ==
    /\ \A g \in DOMAIN m.constraints : m.constraints[g] = "linear"
    /\ ~m.is_enabled_user_defined_move

\* Model::evaluate: the path it takes for the constraints
EvaluationPath(m) ==
    IF m.is_enabled_fast_evaluation THEN "incremental" ELSE "full"

\* a model as the tests build it, before the two set-ups: both flags are true
\* in a new model (part_000:141-142)
LinearityInit ==
    /\ SolverIdle
    /\ pc = "linearity"
    /\ \E objective \in FunctionKinds,
          constraints \in [1..NumberOfFunctionConstraints -> FunctionKinds],
          user_defined \in BOOLEAN :
          model_object =
              [kind |-> "linearity",
               objective |-> objective,
               constraints |-> constraints,
               is_enabled_user_defined_move |-> user_defined,
               is_linear |-> TRUE,
               is_enabled_fast_evaluation |-> TRUE,
               is_set_up |-> [is_linear |-> FALSE, is_enabled_fast_evaluation |-> FALSE]]
    /\ model_log = [operation |-> "none", path |-> "none"]

\* model.setup_is_linear()
SetupIsLinearCall ==
    /\ pc = "linearity"
    /\ model_object' = [model_object EXCEPT
                           !.is_linear = SetupIsLinear(model_object),
                           !.is_set_up.is_linear = TRUE]
    /\ model_log' = [operation |-> "setup_is_linear", path |-> "none"]
    /\ UNCHANGED solver_idle_vars

\* model.setup_is_enabled_fast_evaluation()
SetupIsEnabledFastEvaluationCall ==
    /\ pc = "linearity"
    /\ model_object' = [model_object EXCEPT
                           !.is_enabled_fast_evaluation =
                               SetupIsEnabledFastEvaluation(model_object),
                           !.is_set_up.is_enabled_fast_evaluation = TRUE]
    /\ model_log' = [operation |-> "setup_is_enabled_fast_evaluation", path |-> "none"]
    /\ UNCHANGED solver_idle_vars

\* model.evaluate(move, ...) on a model that has been set up
FastEvaluateCall ==
    /\ pc = "linearity"
    /\ model_object.is_set_up.is_linear
    /\ model_object.is_set_up.is_enabled_fast_evaluation
    /\ model_log' = [operation |-> "evaluate", path |-> EvaluationPath(model_object)]
    /\ UNCHANGED model_object
    /\ UNCHANGED solver_idle_vars

LinearityNext ==
    \/ SetupIsLinearCall
    \/ SetupIsEnabledFastEvaluationCall
    \/ FastEvaluateCall

LinearitySpec ==
    LinearityInit /\ [][LinearityNext]_vars

\* some function of the model is an opaque callback
HasCallbackConstraint ==
    \E g \in DOMAIN model_object.constraints : model_object.constraints[g] = "nonlinear"

HasCallback ==
    model_object.objective = "nonlinear" \/ HasCallbackConstraint

\* C30 as stated: if the objective or any constraint is an opaque callback,
\* the model is marked nonlinear and the fast evaluation is disabled, so
\* every evaluate does a full recomputation.
C30_CallbackDisablesFastEvaluation ==
    (pc = "linearity" /\ HasCallback) =>
        /\ model_object.is_set_up.is_linear => ~model_object.is_linear
        /\ model_object.is_set_up.is_enabled_fast_evaluation =>
               ~model_object.is_enabled_fast_evaluation
        /\ model_log.operation = "evaluate" => model_log.path = "full"

\* C30 (amended): if the objective or any constraint is an opaque callback,
\* the model is marked nonlinear; if some constraint is an opaque callback,
\* the fast evaluation is disabled, so every evaluate does a full
\* recomputation; a callback objective over linear constraints leaves the
\* fast evaluation enabled unless a user-defined move is enabled.
C30_CallbackConstraintDisablesFastEvaluation ==
    pc = "linearity" =>
        /\ (HasCallback /\ model_object.is_set_up.is_linear) =>
               ~model_object.is_linear
        /\ (HasCallbackConstraint /\ model_object.is_set_up.is_enabled_fast_evaluation) =>
               /\ ~model_object.is_enabled_fast_evaluation
               /\ model_log.operation = "evaluate" => model_log.path = "full"
        /\ (~HasCallbackConstraint /\ model_object.is_set_up.is_enabled_fast_evaluation) =>
               (model_object.is_enabled_fast_evaluation
                    = ~model_object.is_enabled_user_defined_move)

\* a model with a callback objective and linear constraints after both
\* set-ups: nonlinear, and evaluated on the incremental path
C30_Witness ==
    /\ pc = "linearity"
    /\ model_object.objective = "nonlinear"
    /\ ~HasCallbackConstraint
    /\ ~model_object.is_enabled_user_defined_move
    /\ model_object.is_set_up.is_linear
    /\ ~model_object.is_linear
    /\ model_object.is_enabled_fast_evaluation
    /\ model_log.operation = "evaluate"
    /\ model_log.path = "incremental"

(***************************************************************************)
(* The Memory alone (memory.h): setup, the two update overloads and        *)
(* reset_last_update_iterations, called in any order.                      *)
(***************************************************************************)
MaxMemoryCalls == 2
MaxMemoryAlterations == 2

\* the values of a_RANDOM_WIDTH: 0 (also the overload without it) and 1
RandomWidths ==
    {0, 1}

\* MemoryConstant::INITIAL_LAST_UPDATE_ITERATION
INITIAL_LAST_UPDATE_ITERATION == -1000

\* Memory::setup: no update yet, every last update iteration at the sentinel
MemorySetup ==
    [last_update_iterations |->
         [j \in 1..NumberOfMemoryVariables |-> INITIAL_LAST_UPDATE_ITERATION],
     update_counts |-> [j \in 1..NumberOfMemoryVariables |-> 0],
     total_update_counts |-> 0]

\* the moves: the sequences of at most MaxMemoryAlterations alterations,
\* each of one variable.  The memory after a move does not depend on the
\* order in which different variables are altered, so the alterations are
\* taken in the order of their variables.
MemoryMoves ==
    {alterations \in UNION {[1..k -> 1..NumberOfMemoryVariables] :
                                k \in 0..MaxMemoryAlterations} :
        \A a, b \in DOMAIN alterations : a < b => alterations[a] <= alterations[b]}

\* Memory::update(a_MOVE, a_ITERATION) and Memory::update(a_MOVE, a_ITERATION,
\* a_RANDOM_WIDTH, get_rand_mt): randomness[k] is the number added to
\* a_ITERATION for the k-th alteration, 0 in the first overload and with
\* a_RANDOM_WIDTH = 0
RECURSIVE MemoryUpdateMove(_, _, _, _)
MemoryUpdateMove(memory, alterations, a_ITERATION, randomness) ==
    IF alterations = <<>> THEN memory
    ELSE LET j == Head(alterations)
         IN  MemoryUpdateMove(
                 [last_update_iterations |->
                      [memory.last_update_iterations EXCEPT ![j] = a_ITERATION + randomness[1]],
                  update_counts |-> [memory.update_counts EXCEPT ![j] = @ + 1],
                  total_update_counts |-> memory.total_update_counts + 1],
                 Tail(alterations), a_ITERATION, Tail(randomness))

\* (*get_rand_mt)() % (2 * a_RANDOM_WIDTH) - a_RANDOM_WIDTH, one per
\* alteration; the number drawn for an alteration whose variable is altered
\* again later in the move is overwritten and is taken as 0
Randomness(alterations, a_RANDOM_WIDTH) ==
    IF a_RANDOM_WIDTH = 0 THEN {[k \in DOMAIN alterations |-> 0]}
    ELSE {randomness \in [DOMAIN alterations -> (-a_RANDOM_WIDTH)..(a_RANDOM_WIDTH - 1)] :
             \A k \in DOMAIN alterations :
                 (\E l \in DOMAIN alterations : l > k /\ alterations[l] = alterations[k])
                     => randomness[k] = 0}

\* mutant: the reset clears the long-term memory too
ResetWholeMemory(memory) ==
    MemorySetup

\* Memory::reset_last_update_iterations
ResetLastUpdateIterations(memory) ==
    [memory EXCEPT !.last_update_iterations =
        [j \in 1..NumberOfMemoryVariables |-> INITIAL_LAST_UPDATE_ITERATION]]

\* Memory memory(model)
MemoryInit ==
    /\ SolverIdle
    /\ pc = "memory"
    /\ model_object = [kind |-> "memory", memory |-> MemorySetup, calls |-> 0]
    /\ model_log = [operation |-> "setup", before |-> MemorySetup,
                    alterations |-> <<>>, iteration |-> 0, randomness |-> <<>>]

\* memory.update(move, iteration) and memory.update(move, iteration,
\* random_width, &get_rand_mt); the iteration is that of the tabu search,
\* which grows with the calls
MemoryUpdateCall ==
    /\ pc = "memory"
    /\ model_object.calls < MaxMemoryCalls
    /\ \E alterations \in MemoryMoves, a_RANDOM_WIDTH \in RandomWidths :
       \E randomness \in Randomness(alterations, a_RANDOM_WIDTH) :
          /\ model_object' =
                [model_object EXCEPT
                    !.memory = MemoryUpdateMove(model_object.memory, alterations,
                                                model_object.calls, randomness),
                    !.calls = @ + 1]
          /\ model_log' = [operation |-> "update", before |-> model_object.memory,
                           alterations |-> alterations,
                           iteration |-> model_object.calls,
                           randomness |-> randomness]
    /\ UNCHANGED solver_idle_vars

\* memory.reset_last_update_iterations()
ResetLastUpdateIterationsCall ==
    /\ pc = "memory"
    /\ model_object.calls < MaxMemoryCalls
    /\ model_log.operation # "reset_last_update_iterations"
    /\ model_object' =
          [model_object EXCEPT
              !.memory = ResetLastUpdateIterations(model_object.memory),
              !.calls = @ + 1]
    /\ model_log' = [operation |-> "reset_last_update_iterations",
                     before |-> model_object.memory,
                     alterations |-> <<>>, iteration |-> 0, randomness |-> <<>>]
    /\ UNCHANGED solver_idle_vars

MemoryNext ==
    \/ MemoryUpdateCall
    \/ ResetLastUpdateIterationsCall

MemorySpec ==
    MemoryInit /\ [][MemoryNext]_vars

\* the bias of the memory as <<numerator, denominator>>
MemoryBias ==
    Bias(model_object.memory)

\* C31 as stated: for a Memory over n variables, bias() lies in the interval
\* (1/n, 1] after any sequence of update calls, including the empty one.
C31_BiasAboveReciprocal ==
    pc = "memory" =>
        /\ MemoryBias[2] > 0
        /\ NumberOfMemoryVariables * MemoryBias[1] > MemoryBias[2]
        /\ MemoryBias[1] <= MemoryBias[2]

\* C31 (amended): after any sequence of update calls that recorded at least
\* one alteration, bias() lies in the closed interval [1/n, 1]; before the
\* first alteration it is not a number (0/0).
C31_BiasInClosedInterval ==
    pc = "memory" =>
        IF model_object.memory.total_update_counts = 0
        THEN MemoryBias = <<0, 0>>
        ELSE /\ MemoryBias[2] > 0
             /\ NumberOfMemoryVariables * MemoryBias[1] >= MemoryBias[2]
             /\ MemoryBias[1] <= MemoryBias[2]

\* a memory in which every variable has been updated equally often: the
\* bias is exactly 1/n
C31_Witness ==
    /\ pc = "memory"
    /\ model_object.memory.total_update_counts > 0
    /\ NumberOfMemoryVariables * MemoryBias[1] = MemoryBias[2]

\* the number of alterations of variable j in the logged move
AlterationsOf(j) ==
    Cardinality({k \in DOMAIN model_log.alterations : model_log.alterations[k] = j})

\* C37: after any sequence of Memory::update calls (with or without random
\* width), total_update_counts equals the sum of all per-variable update
\* counts; each alteration of an applied move increments the count of its
\* variable by exactly one and sets its last update iteration, while those of
\* all other variables are unchanged; and reset_last_update_iterations
\* changes no update count.
C37_MemoryCounts ==
    pc = "memory" =>
        LET memory == model_object.memory
            before == model_log.before
            variables == 1..NumberOfMemoryVariables
        IN  /\ memory.total_update_counts = SumOf(memory.update_counts, variables)
            /\ model_log.operation = "update" =>
                  \A j \in variables :
                      /\ memory.update_counts[j] = before.update_counts[j] + AlterationsOf(j)
                      /\ AlterationsOf(j) = 0 =>
                             memory.last_update_iterations[j]
                                 = before.last_update_iterations[j]
                      /\ AlterationsOf(j) > 0 =>
                             \E k \in DOMAIN model_log.alterations :
                                 /\ model_log.alterations[k] = j
                                 /\ \A l \in DOMAIN model_log.alterations :
                                        model_log.alterations[l] = j => l <= k
                                 /\ memory.last_update_iterations[j]
                                        = model_log.iteration + model_log.randomness[k]
            /\ model_log.operation = "reset_last_update_iterations" =>
                  /\ memory.update_counts = before.update_counts
                  /\ memory.total_update_counts = before.total_update_counts

\* a reset of the short-term memory after a move with two alterations: the
\* counts of the move are kept
C37_Witness ==
    /\ pc = "memory"
    /\ model_log.operation = "reset_last_update_iterations"
    /\ model_object.memory.total_update_counts = 2
    /\ \E j \in 1..NumberOfMemoryVariables : model_log.before.last_update_iterations[j] >= 0
    /\ \A j \in 1..NumberOfMemoryVariables :
          model_object.memory.last_update_iterations[j] = INITIAL_LAST_UPDATE_ITERATION

(***************************************************************************)
(* AbstractMultiArray (abstract_multi_array.h): the strides of a shape and *)
(* the two index conversions.  Indices are 0-based as in the code; the     *)
(* sequences that hold them are 1-based.                                   *)
(***************************************************************************)
MaxDimensions == 3
MaxExtent == 3

\* the shapes with positive extents
Shapes ==
    UNION {[1..n -> 1..MaxExtent] : n \in 1..MaxDimensions}

\* a sequence from its last element to its first (rbegin .. rend)
Reverse(s) ==
    [k \in 1..Len(s) |-> s[Len(s) + 1 - k]]

\* std::partial_sum with std::multiplies<int>: the k-th output
RECURSIVE PartialProduct(_, _)
PartialProduct(s, k) ==
    IF k = 1 THEN s[1] ELSE PartialProduct(s, k - 1) * s[k]

\* mutant: the strides of a column-major layout
ComputeStridesFromTheFront(a_SHAPE) ==
    [k \in 1..Len(a_SHAPE) |-> IF k = 1 THEN 1 ELSE PartialProduct(a_SHAPE, k - 1)]

\* AbstractMultiArray::compute_strides: the last stride is 1 and the partial
\* products of the reversed shape without its last element (the first
\* extent) are written from the last but one stride towards the first
ComputeStrides(a_SHAPE) ==
    [k \in 1..Len(a_SHAPE) |->
        IF k = Len(a_SHAPE) THEN 1
        ELSE PartialProduct(Reverse(a_SHAPE), Len(a_SHAPE) - k)]

\* std::accumulate(a_SHAPE.begin(), a_SHAPE.end(), 1, std::multiplies<int>())
NumberOfElementsOf(a_SHAPE) ==
    PartialProduct(a_SHAPE, Len(a_SHAPE))

\* AbstractMultiArray(a_ID, a_SHAPE)
NewMultiArray(a_SHAPE) ==
    [kind |-> "array",
     shape |-> a_SHAPE,
     strides |-> ComputeStrides(a_SHAPE),
     number_of_dimensions |-> Len(a_SHAPE),
     number_of_elements |-> NumberOfElementsOf(a_SHAPE)]

\* AbstractMultiArray::flat_index: std::inner_product with the strides
FlatIndex(array, a_MULTI_DIMENSIONAL_INDEX) ==
    SumOf([k \in 1..array.number_of_dimensions |->
              a_MULTI_DIMENSIONAL_INDEX[k] * array.strides[k]],
          1..array.number_of_dimensions)

\* the value of remain before step i of multi_dimensional_index
RECURSIVE Remain(_, _, _)
Remain(array, a_FLAT_INDEX, i) ==
    IF i = 1 THEN a_FLAT_INDEX
    ELSE Remain(array, a_FLAT_INDEX, i - 1) % array.strides[i - 1]

\* AbstractMultiArray::multi_dimensional_index
MultiDimensionalIndex(array, a_FLAT_INDEX) ==
    [i \in 1..array.number_of_dimensions |->
        Remain(array, a_FLAT_INDEX, i) \div array.strides[i]]

\* the in-range index vectors of an array
IndexVectors(array) ==
    {index \in [1..array.number_of_dimensions -> 0..(MaxExtent - 1)] :
        \A k \in 1..array.number_of_dimensions : index[k] < array.shape[k]}

\* an array of any shape, just constructed
ArrayInit ==
    /\ SolverIdle
    /\ pc = "array"
    /\ \E a_SHAPE \in Shapes : model_object = NewMultiArray(a_SHAPE)
    /\ model_log = [operation |-> "none", multi_dimensional_index |-> <<>>,
                    flat_index |-> 0]

\* array.flat_index(index)
FlatIndexCall ==
    /\ pc = "array"
    /\ \E index \in IndexVectors(model_object) :
          model_log' = [operation |-> "flat_index",
                        multi_dimensional_index |-> index,
                        flat_index |-> FlatIndex(model_object, index)]
    /\ UNCHANGED model_object
    /\ UNCHANGED solver_idle_vars

\* array.multi_dimensional_index(flat_index)
MultiDimensionalIndexCall ==
    /\ pc = "array"
    /\ \E a_FLAT_INDEX \in 0..(model_object.number_of_elements - 1) :
          model_log' = [operation |-> "multi_dimensional_index",
                        multi_dimensional_index |->
                            MultiDimensionalIndex(model_object, a_FLAT_INDEX),
                        flat_index |-> a_FLAT_INDEX]
    /\ UNCHANGED model_object
    /\ UNCHANGED solver_idle_vars

ArrayNext ==
    \/ FlatIndexCall
    \/ MultiDimensionalIndexCall

ArraySpec ==
    ArrayInit /\ [][ArrayNext]_vars

\* index vector a comes before b in row-major (lexicographic) order
RowMajorBefore(a, b) ==
    \E k \in DOMAIN a :
        /\ a[k] < b[k]
        /\ \A l \in DOMAIN a : l < k => a[l] = b[l]

\* C32: for an array of any shape with positive extents, flat_index and
\* multi_dimensional_index are mutual inverses, and flat_index maps the
\* in-range index vectors one-to-one onto 0 .. number_of_elements - 1 in
\* row-major order, number_of_elements being the product of the shape.
C32_IndexRoundTrip ==
    pc = "array" =>
        /\ model_object.number_of_elements = Cardinality(IndexVectors(model_object))
        /\ model_log.operation = "flat_index" =>
              /\ model_log.flat_index \in 0..(model_object.number_of_elements - 1)
              /\ model_log.flat_index =
                    Cardinality({index \in IndexVectors(model_object) :
                                    RowMajorBefore(index,
                                                   model_log.multi_dimensional_index)})
              /\ MultiDimensionalIndex(model_object, model_log.flat_index)
                    = model_log.multi_dimensional_index
        /\ model_log.operation = "multi_dimensional_index" =>
              /\ model_log.multi_dimensional_index \in IndexVectors(model_object)
              /\ FlatIndex(model_object, model_log.multi_dimensional_index)
                    = model_log.flat_index

\* the flat index of an inner element of an array with three different
\* extents
C32_Witness ==
    /\ pc = "array"
    /\ model_object.shape = <<2, 3, 1>>
    /\ model_log.operation = "flat_index"
    /\ model_log.multi_dimensional_index = <<1, 2, 0>>
    /\ model_log.flat_index = 5

(***************************************************************************)
(* The exceptions of solve (solver.h:40-46, 110-121, 546-565): the latch   *)
(* is set first, the setup of the model verifies the initial values and    *)
(* may throw, and the restart mode is examined after the first tabu        *)
(* search.  The search phases are reduced to whether the outer loop        *)
(* reaches its first tabu search.                                          *)
(***************************************************************************)
\* the values of master_option.tabu_search.restart_mode: the two enumerators
\* and a value that is neither
RestartModes ==
    {"Global", "Local", "Invalid"}

\* the models handed to solve: binary variables as created, assigned and fixed
LatchModels ==
    {m \in UnverifiedModelObjects : m.kind = "Binary"}

\* mutant: the latch is set when solve returns
IsSolvedAfterReturn(a_is_solved, outcome) ==
    a_is_solved \/ outcome = "returned"

\* solver.h:40-46: a_model->set_is_solved(true) is the first statement of a
\* solve that does not throw at once, so the model is marked whatever the
\* rest of the call does
IsSolvedAfter(a_is_solved, outcome) ==
    TRUE

\* solver.h:110-121 and 473-565: how a solve of an unsolved model ends.
\* reaches_tabu_search says whether the outer loop gets to its first tabu
\* search (no time-over, iteration_max >= 1, target not reached).
SolveOutcome(m, a_option, reaches_tabu_search) ==
    IF VerifyAndCorrectBoundedVariablesInitialValues(
           m, a_option.is_enabled_initial_value_correction).status = "error"
    THEN [outcome |-> "thrown", error |-> "InvalidInitialValue"]
    ELSE IF reaches_tabu_search /\ a_option.restart_mode \notin {"Global", "Local"}
    THEN [outcome |-> "thrown", error |-> "InvalidRestartMode"]
    ELSE [outcome |-> "returned", error |-> "none"]

LatchInit ==
    /\ SolverIdle
    /\ pc = "latch"
    /\ \E m \in LatchModels, correction \in BOOLEAN, mode \in RestartModes :
          model_object =
              [kind |-> "latch",
               model |-> m,
               is_solved |-> FALSE,
               option |-> [is_enabled_initial_value_correction |-> correction,
                           restart_mode |-> mode],
               errors |-> <<>>]
    /\ model_log = [operation |-> "none", outcome |-> "none", error |-> "none"]

\* solve(&model, option), on a model solved before or not
LatchSolve ==
    /\ pc = "latch"
    /\ Len(model_object.errors) < MaxSolveCalls
    /\ IF SolveThrows(model_object.is_solved)
       THEN /\ model_object' = [model_object EXCEPT !.errors = Append(@, "AlreadySolved")]
            /\ model_log' = [operation |-> "solve", outcome |-> "thrown",
                             error |-> "AlreadySolved"]
       ELSE \E reaches_tabu_search \in BOOLEAN :
            \E r \in {SolveOutcome(model_object.model, model_object.option,
                                   reaches_tabu_search)} :
               /\ model_object' =
                     [model_object EXCEPT
                         !.is_solved = IsSolvedAfter(model_object.is_solved, r.outcome),
                         !.model =
                             IF r.error = "InvalidInitialValue" THEN @
                             ELSE VerifyAndCorrectBoundedVariablesInitialValues(
                                      @, model_object.option
                                             .is_enabled_initial_value_correction).model,
                         !.errors = Append(@, r.error)]
               /\ model_log' = [operation |-> "solve", outcome |-> r.outcome,
                                error |-> r.error]
    /\ UNCHANGED solver_idle_vars

LatchNext ==
    LatchSolve

LatchSpec ==
    LatchInit /\ [][LatchNext]_vars

\* C33: the solved latch is set before the setup of the model runs, so if
\* the first solve throws during setup or during a later phase (an invalid
\* initial value, an invalid restart mode), the model stays marked as solved
\* and every later solve on it fails with the already-solved error.
C33_LatchSurvivesException ==
    pc = "latch" =>
        /\ Len(model_object.errors) >= 1 => model_object.is_solved
        /\ \A k \in DOMAIN model_object.errors :
              k >= 2 => model_object.errors[k] = "AlreadySolved"

\* a first solve that threw on the restart mode after its setup, and a
\* second one that failed because the model is marked as solved
C33_Witness ==
    /\ pc = "latch"
    /\ model_object.errors = <<"InvalidRestartMode", "AlreadySolved">>
    /\ model_object.is_solved

\* a first solve that threw during the setup on an invalid initial value
C33_SetupWitness ==
    /\ pc = "latch"
    /\ model_object.errors = <<"InvalidInitialValue", "AlreadySolved">>
    /\ model_object.is_solved

(***************************************************************************)
(* The grouping of the local penalty coefficients (solver.h:620-709).      *)
(***************************************************************************)
\* all coefficients of one constraint proxy are equal
EqualWithinProxies(proxies) ==
    \A p \in ProxyIds : \A i, j \in FlatIndices(p) : proxies[p][i] = proxies[p][j]

\* C34 as stated: with is_enabled_grouping_penalty_coefficient set, after
\* the penalty update of every outer-loop iteration (reset, tighten or
\* relax) all local penalty coefficients that belong to the same constraint
\* proxy are equal.
C34_GroupedAfterEveryUpdate ==
    (master_option.is_enabled_grouping_penalty_coefficient
        /\ loop_log.branch \in {"reset", "tighten", "relax"})
        => EqualWithinProxies(local_penalty_coefficient_proxies)

\* C34: with is_enabled_grouping_penalty_coefficient set, after the penalty
\* update of an outer-loop iteration that resets or tightens, all local
\* penalty coefficients that belong to the same constraint proxy are equal;
\* a relaxing update lowers the coefficients of the satisfied constraints
\* alone and may leave those of one proxy different.
C34_GroupedAfterResetOrTighten ==
    (master_option.is_enabled_grouping_penalty_coefficient
        /\ loop_log.branch \in {"reset", "tighten"})
        => EqualWithinProxies(local_penalty_coefficient_proxies)

\* a tightening with grouping of coefficients that differed before it and
\* would differ after it without the grouping
C34_Witness ==
    /\ master_option.is_enabled_grouping_penalty_coefficient
    /\ loop_log.branch = "tighten"
    /\ ~EqualWithinProxies(loop_log.local_before)
    /\ ~EqualWithinProxies(
           TightenUngrouped(loop_log.local_before, loop_log.gap,
                            loop_log.result_local_solution, master_option))
    /\ EqualWithinProxies(local_penalty_coefficient_proxies)

\* a reset with grouping of coefficients that a relaxing had made different
C34_ResetWitness ==
    /\ master_option.is_enabled_grouping_penalty_coefficient
    /\ loop_log.branch = "reset"
    /\ ~EqualWithinProxies(loop_log.local_before)
    /\ EqualWithinProxies(local_penalty_coefficient_proxies)

(***************************************************************************)
(* An IncumbentHolder whose feasible scores carry no penalty: the global   *)
(* augmented objective of a feasible score is its objective, as for the    *)
(* scores Model::evaluate computes.                                        *)
(***************************************************************************)
PenaltyFreeScores ==
    {s \in HolderScores : s.is_feasible => s.global_augmented_objective = s.objective}

PenaltyFreeHolderInit ==
    /\ option = DefaultOption
    /\ mdl = DefaultModel
    /\ variable_values = <<0, 0>>
    /\ pc = "penalty_free_holder"
    /\ InitCommon

\* incumbent_holder.try_update_incumbent(a_SOLUTION, a_SCORE)
PenaltyFreeTryUpdate ==
    /\ pc = "penalty_free_holder"
    /\ last_call.number < MaxHolderCalls
    /\ \E a_SOLUTION \in HolderSolutions, a_SCORE \in PenaltyFreeScores :
       \E r \in {TryUpdateIncumbent(incumbent_holder, a_SOLUTION, a_SCORE)} :
         /\ incumbent_holder' = r.holder
         /\ last_call' = [operation |-> "try_update_incumbent",
                          number |-> last_call.number + 1,
                          before |-> incumbent_holder,
                          solution |-> a_SOLUTION,
                          score |-> a_SCORE,
                          status |-> r.status]
    /\ UNCHANGED holder_unchanged

\* incumbent_holder.reset_local_augmented_incumbent()
PenaltyFreeResetLocal ==
    /\ pc = "penalty_free_holder"
    /\ last_call.number < MaxHolderCalls
    /\ incumbent_holder' = ResetLocalAugmentedIncumbent(incumbent_holder)
    /\ last_call' = [NoCall EXCEPT !.operation = "reset_local_augmented_incumbent",
                                   !.number = last_call.number + 1,
                                   !.before = incumbent_holder]
    /\ UNCHANGED holder_unchanged

\* incumbent_holder.initialize()
PenaltyFreeInitialize ==
    /\ pc = "penalty_free_holder"
    /\ last_call.number < MaxHolderCalls
    /\ incumbent_holder' = Initialize(incumbent_holder)
    /\ last_call' = [NoCall EXCEPT !.operation = "initialize",
                                   !.number = last_call.number + 1,
                                   !.before = incumbent_holder]
    /\ UNCHANGED holder_unchanged

PenaltyFreeHolderNext ==
    \/ PenaltyFreeTryUpdate
    \/ PenaltyFreeResetLocal
    \/ PenaltyFreeInitialize

PenaltyFreeHolderSpec ==
    PenaltyFreeHolderInit /\ [][PenaltyFreeHolderNext]_vars

\* C35: in an IncumbentHolder that is only offered scores whose
\* global_augmented_objective equals their objective whenever is_feasible
\* holds, global_augmented_incumbent_objective <=
\* feasible_incumbent_objective holds after every try_update_incumbent call.
C35_GlobalAtMostFeasible ==
    pc = "penalty_free_holder" =>
        incumbent_holder.global_augmented_incumbent_objective
            <= incumbent_holder.feasible_incumbent_objective

\* a feasible offer that lowers the feasible incumbent below a global
\* augmented incumbent an infeasible offer had set: the same call lowers the
\* global augmented incumbent to it
C35_Witness ==
    /\ pc = "penalty_free_holder"
    /\ last_call.operation = "try_update_incumbent"
    /\ last_call.score.is_feasible
    /\ last_call.before.global_augmented_incumbent_objective < HUGE_VALF
    /\ last_call.before.feasible_incumbent_objective = HUGE_VALF
    /\ last_call.score.objective < last_call.before.global_augmented_incumbent_objective
    /\ incumbent_holder.global_augmented_incumbent_objective
          = incumbent_holder.feasible_incumbent_objective

\* an infeasible offer below the feasible incumbent: the global augmented
\* incumbent falls strictly below the feasible one
C35_StrictWitness ==
    /\ pc = "penalty_free_holder"
    /\ last_call.operation = "try_update_incumbent"
    /\ ~last_call.score.is_feasible
    /\ incumbent_holder.feasible_incumbent_objective < HUGE_VALF
    /\ incumbent_holder.global_augmented_incumbent_objective
          < incumbent_holder.feasible_incumbent_objective

(***************************************************************************)
(* The found-feasible flag and the feasible incumbent of an                *)
(* IncumbentHolder (part_002:61-73, 107-118, 184-187).                     *)
(***************************************************************************)
\* the feasible incumbent as a whole
FeasibleIncumbent(h) ==
    <<h.feasible_incumbent_solution, h.feasible_incumbent_score,
      h.feasible_incumbent_objective>>

\* C36: found_feasible_solution becomes true at the first
\* try_update_incumbent call whose score has is_feasible set and is never
\* false afterwards in the life of the holder that initialize() starts
\* (reset_local_augmented_incumbent does not clear it); for finite
\* objectives it is true iff feasible_incumbent_objective differs from its
\* initial sentinel, and the feasible incumbent solution is always one that
\* was offered with is_feasible set.
C36_FoundFeasibleLatch ==
    /\ [](pc = "holder" =>
             /\ incumbent_holder.found_feasible_solution
                   <=> incumbent_holder.feasible_incumbent_objective # HUGE_VALF
             /\ incumbent_holder.found_feasible_solution =>
                   /\ incumbent_holder.feasible_incumbent_score.is_feasible
                   /\ incumbent_holder.feasible_incumbent_score.objective
                         = incumbent_holder.feasible_incumbent_objective)
    /\ [][pc = "holder" =>
             /\ last_call'.operation = "try_update_incumbent" =>
                   /\ incumbent_holder'.found_feasible_solution
                         <=> (incumbent_holder.found_feasible_solution
                                 \/ last_call'.score.is_feasible)
                   /\ \/ FeasibleIncumbent(incumbent_holder')
                            = FeasibleIncumbent(incumbent_holder)
                      \/ /\ last_call'.score.is_feasible
                         /\ FeasibleIncumbent(incumbent_holder')
                               = <<last_call'.solution, last_call'.score,
                                   last_call'.score.objective>>
             /\ last_call'.operation = "reset_local_augmented_incumbent" =>
                   /\ incumbent_holder'.found_feasible_solution
                         = incumbent_holder.found_feasible_solution
                   /\ FeasibleIncumbent(incumbent_holder')
                         = FeasibleIncumbent(incumbent_holder)]_vars

\* a local reset of a holder that has found a feasible solution, after
\* which an infeasible offer with a smaller objective is refused as
\* feasible incumbent: the flag is still set
C36_Witness ==
    /\ pc = "holder"
    /\ last_call.operation = "try_update_incumbent"
    /\ ~last_call.score.is_feasible
    /\ last_call.score.objective < last_call.before.feasible_incumbent_objective
    /\ last_call.before.found_feasible_solution
    /\ last_call.before.local_augmented_incumbent_objective = HUGE_VALF
    /\ incumbent_holder.found_feasible_solution
    /\ FeasibleIncumbent(incumbent_holder) = FeasibleIncumbent(last_call.before)

\* the first feasible offer to a holder that had been offered infeasible
\* scores only
C36_FirstFeasibleWitness ==
    /\ pc = "holder"
    /\ last_call.operation = "try_update_incumbent"
    /\ last_call.score.is_feasible
    /\ ~last_call.before.found_feasible_solution
    /\ last_call.before.global_augmented_incumbent_objective < HUGE_VALF
    /\ incumbent_holder.found_feasible_solution

(***************************************************************************)
(* The range of the initial tabu tenure of a loop (solver.h:463, 517,      *)
(* 711-736).                                                               *)
(***************************************************************************)
\* C38: for every option setting with tabu_search.initial_tabu_tenure >= 1,
\* the initial tabu tenure handed to every tabu loop is at least 1 and at
\* most number_of_not_fixed_variables.
C38_TenureWithinVariables ==
    (pc = "tenure" /\ model_log.operation = "tabu_search"
        /\ model_object.tabu_search.initial_tabu_tenure >= 1) =>
        /\ model_log.tenure >= 1
        /\ model_log.tenure <= model_object.number_of_not_fixed_variables

\* the part of C38 the code keeps: the tenure of a loop is at least 1, and
\* at most the larger of the configured tenure and the number of not fixed
\* variables
C38_TenureWithinConfigured ==
    (pc = "tenure" /\ model_log.operation = "tabu_search"
        /\ model_object.tabu_search.initial_tabu_tenure >= 1) =>
        /\ model_log.tenure >= 1
        /\ model_log.tenure <= Max(model_object.tabu_search.initial_tabu_tenure,
                                   model_object.number_of_not_fixed_variables)

\* the first loop of a solve whose configured tenure exceeds the number of
\* not fixed variables
C38_FirstLoopWitness ==
    /\ pc = "tenure"
    /\ model_log.operation = "tabu_search"
    /\ model_object.iteration = 1
    /\ model_object.tabu_search.is_enabled_automatic_tabu_tenure_adjustment
    /\ model_log.tenure > model_object.number_of_not_fixed_variables

(***************************************************************************)
(* The tabu status of a move (spec.md 4.5; memory.h:14-16, 52-75) under    *)
(* the tenures the outer loop hands to the tabu search (solver.h:463,      *)
(* 517, 711-736).  The moves alter one not fixed variable each.            *)
(***************************************************************************)
MaxTabuIterations == 2
MaxTabuLoops == 1

\* the values of tabu_search.initial_tabu_tenure: short ones, and the ones
\* next to the distance of the first iteration from the sentinel
ConfiguredTabuTenures ==
    {1, 2, -INITIAL_LAST_UPDATE_ITERATION, 1 - INITIAL_LAST_UPDATE_ITERATION}

\* mutant: a variable is tabu from its last update up to the tenure included
MoveIsTabuThroughTenure(memory, alterations, a_ITERATION, a_TABU_TENURE) ==
    \E k \in DOMAIN alterations :
        a_ITERATION - memory.last_update_iterations[alterations[k]] <= a_TABU_TENURE

\* a move is tabu iff an altered variable has
\* a_ITERATION - last_update_iterations < a_TABU_TENURE
MoveIsTabu(memory, alterations, a_ITERATION, a_TABU_TENURE) ==
    \E k \in DOMAIN alterations :
        a_ITERATION - memory.last_update_iterations[alterations[k]] < a_TABU_TENURE

\* solver.h:192, 460-465: the memory is set up and the first loop is handed
\* the configured tenure
TabuInit ==
    /\ SolverIdle
    /\ pc = "tabu"
    /\ \E tenure \in ConfiguredTabuTenures, adjust \in BOOLEAN,
          n \in 1..NumberOfMemoryVariables :
          model_object =
              [kind |-> "tabu",
               tabu_search |->
                   [initial_tabu_tenure |-> tenure,
                    is_enabled_automatic_tabu_tenure_adjustment |-> adjust],
               number_of_not_fixed_variables |-> n,
               memory |-> MemorySetup,
               bias |-> Bias(MemorySetup),
               next_inital_tabu_tenure |-> tenure,
               tabu_tenure |-> tenure,
               iteration |-> 0,
               loops |-> 0]
    /\ model_log = [operation |-> "none", iteration |-> 0, tabu_tenure |-> 0,
                    before |-> MemorySetup,
                    tabu |-> [j \in 1..NumberOfMemoryVariables |-> FALSE],
                    move |-> <<>>]

\* one iteration of the tabu search: every move is classified, and a move
\* that is not tabu, or one that updates the global augmented incumbent, is
\* applied and recorded; without such a move the iteration changes nothing
TabuIteration ==
    /\ pc = "tabu"
    /\ model_object.iteration < MaxTabuIterations
    /\ LET memory == model_object.memory
           k == model_object.iteration
           tenure == model_object.tabu_tenure
           tabu == [j \in 1..NumberOfMemoryVariables |->
                       MoveIsTabu(memory, <<j>>, k, tenure)]
       IN  \E move \in {<<>>} \cup {<<j>> : j \in 1..model_object.number_of_not_fixed_variables} :
           \E aspiration \in BOOLEAN :
              /\ move = <<>> => ~aspiration
              /\ move # <<>> => (~tabu[move[1]] \/ aspiration)
              /\ move # <<>> /\ aspiration => tabu[move[1]]
              /\ move = <<>> =>
                    \A j \in 1..model_object.number_of_not_fixed_variables : tabu[j]
              /\ model_object' =
                    [model_object EXCEPT
                        !.memory = MemoryUpdateMove(memory, move, k,
                                                    [i \in DOMAIN move |-> 0]),
                        !.iteration = @ + 1]
              /\ model_log' = [operation |-> "tabu_iteration", iteration |-> k,
                               tabu_tenure |-> tenure, before |-> memory,
                               tabu |-> tabu, move |-> move]
    /\ UNCHANGED solver_idle_vars

\* solver.h:507-517, 711-736: the tabu search returns, the tenure of the
\* next loop is derived and handed to it
TabuLoopEnd ==
    /\ pc = "tabu"
    /\ model_object.iteration >= 1
    /\ model_object.loops < MaxTabuLoops
    /\ \E total_update_status \in TotalUpdateStatuses :
       \E next \in {NextInitialTabuTenure(
                        model_object.tabu_search, model_object.tabu_tenure,
                        model_object.next_inital_tabu_tenure, total_update_status,
                        Bias(model_object.memory), model_object.bias,
                        model_object.number_of_not_fixed_variables)} :
          /\ model_object' =
                [model_object EXCEPT
                    !.bias = Bias(model_object.memory),
                    !.next_inital_tabu_tenure = next,
                    !.tabu_tenure = next,
                    !.iteration = 0,
                    !.loops = @ + 1]
          /\ model_log' = [model_log EXCEPT !.operation = "tabu_search",
                                            !.tabu_tenure = next]
    /\ UNCHANGED solver_idle_vars

TabuNext ==
    \/ TabuIteration
    \/ TabuLoopEnd

TabuSpec ==
    TabuInit /\ [][TabuNext]_vars

\* C39: a variable that has never been altered (its last_update_iteration
\* still at the initial sentinel) is never classified as tabu at any
\* iteration k >= 0, for every tabu tenure the outer loop can produce.
C39_NeverAlteredNeverTabu ==
    (pc = "tabu" /\ model_log.operation = "tabu_iteration") =>
        \A j \in 1..NumberOfMemoryVariables :
            model_log.before.last_update_iterations[j] = INITIAL_LAST_UPDATE_ITERATION
                => ~model_log.tabu[j]

\* the part of C39 the sentinel keeps: with a tenure of at most the distance
\* of iteration 0 from the sentinel, a variable never altered is not tabu
C39_NeverAlteredNotTabuUpToSentinel ==
    (pc = "tabu" /\ model_log.operation = "tabu_iteration"
        /\ model_log.tabu_tenure <= -INITIAL_LAST_UPDATE_ITERATION) =>
        \A j \in 1..NumberOfMemoryVariables :
            model_log.before.last_update_iterations[j] = INITIAL_LAST_UPDATE_ITERATION
                => ~model_log.tabu[j]

\* the first iteration of a loop whose tenure exceeds the distance from the
\* sentinel: every variable is tabu although none has been altered
C39_SentinelWitness ==
    /\ pc = "tabu"
    /\ model_log.operation = "tabu_iteration"
    /\ model_log.iteration = 0
    /\ model_log.before = MemorySetup
    /\ \A j \in 1..NumberOfMemoryVariables : model_log.tabu[j]

\* with a short tenure, an altered variable is tabu and a variable never
\* altered is not
C39_ShortTenureWitness ==
    /\ pc = "tabu"
    /\ model_log.operation = "tabu_iteration"
    /\ model_log.tabu_tenure <= 2
    /\ \E i, j \in 1..NumberOfMemoryVariables :
          /\ model_log.tabu[i]
          /\ model_log.before.last_update_iterations[j] = INITIAL_LAST_UPDATE_ITERATION
          /\ ~model_log.tabu[j]

C40_GroupsDisjointOutsideDefined ==
    (pc = "extracted" /\ model_log.mode \in {"Independent", "Larger"}) =>
        \A j, k \in DOMAIN model_object.selections :
            j # k => VariablePtrs(model_object, model_object.selections[j])
                        \cap VariablePtrs(model_object, model_object.selections[k]) = {}

\* Defined mode on two constraints that share a variable: both are
\* extracted
C40_DefinedOverlapWitness ==
    /\ pc = "extracted"
    /\ model_log.mode = "Defined"
    /\ \E j, k \in DOMAIN model_object.selections :
          /\ j # k
          /\ model_object.constraints[model_object.selections[j]]
                # model_object.constraints[model_object.selections[k]]
          /\ VariablePtrs(model_object, model_object.selections[j])
                \cap VariablePtrs(model_object, model_object.selections[k]) # {}

====
